---- MODULE Spec2Model ----
(***************************************************************************)
(* Harbinger (src/harbinger.py): the host-discovery and change-detection   *)
(* engine of HarbingerMonitor.                                             *)
(*                                                                         *)
(*   StoreSpec  the presence store: update_host_database called with any   *)
(*              list of addresses on any configured port, one SQL          *)
(*              statement per step, with database errors and process       *)
(*              crashes at any statement.                                  *)
(*   WatchSpec  StoreSpec with one committed call remembered, to compare   *)
(*              a later call on the same port and set with it.             *)
(*   Spec       the coordinator: scan_ports over a configuration of port   *)
(*              profiles, one loop iteration per step, then one            *)
(*              generate_report per report group.                          *)
(*   ReportSpec the same pass for profiles scanned by a command, with file *)
(*              reports on or off and sinks that can fail.                 *)
(*   EnrichSpec the same pass for profiles with or without a post_command. *)
(*   LabelSpec  the same pass for profiles of one port with or without a   *)
(*              port_label and a post_command.                             *)
(*   FileSpec   the same pass with file reports on, for labels that differ *)
(*              in a blank and an underscore.                              *)
(*   StepSpec   the pass with each loop iteration in its steps: the scan   *)
(*              command started, ended, the table updated, the outcome     *)
(*              stored.                                                    *)
(*   BatchSpec  main --mode cron from the start-up to the exit status,     *)
(*              with weak fairness on the steps of the program.            *)
(*   RunSpec    main in either mode: the start-up, the scheduling loop of  *)
(*              standalone mode over MaxPasses passes, interruptions of    *)
(*              the operator, and a database file that stops being         *)
(*              openable.                                                  *)
(*   ParseSpec  the parsing of the output of a scan command, character by  *)
(*              character, by execute_command and by nmap_scan.            *)
(***************************************************************************)
EXTENDS Integers, Sequences, FiniteSets, Bags, TLC

\* ------------------------------------------------------------------ bounds
\* Longest address list a scan hands to update_host_database.
MaxIps == 2
\* Last value of the wall clock (datetime.now()) a call of the presence
\* store can read in StoreSpec and WatchSpec.
MaxClock == 1

\* Addresses a scan can report, and the ports that can have a table.
IPs == {"10.0.0.1", "10.0.0.2"}
Ports == {80, 443}

\* ----------------------------------------------------------------- helpers
Range(s) == {s[i] : i \in 1..Len(s)}

SeqsUpTo(S, n) == UNION {[1..k -> S] : k \in 0..n}

IpLists == SeqsUpTo(IPs, MaxIps)

\* ------------------------------------------------------- the presence store
\* A table hosts_port_<port> is the bag (multiset) of its rows.
Row(ip, first, last) == [ip_address |-> ip, first_seen |-> first, last_seen |-> last]

\* setup_database: CREATE TABLE IF NOT EXISTS for every configured port; a
\* fresh database holds one empty table per port.
EmptyDb == [p \in Ports |-> EmptyBag]

\* The addresses that have a row.
IpsOf(rows) == {r.ip_address : r \in BagToSet(rows)}

\* SELECT ip_address FROM table WHERE ip_address = ?  (fetchone() is not None)
SqlSelect(rows, ip) == \E r \in BagToSet(rows) : r.ip_address = ip

\* UPDATE table SET last_seen = ? WHERE ip_address = ? on the rows S of the
\* table, copy by copy.
RECURSIVE UpdateRows(_, _, _, _)
UpdateRows(S, rows, ip, t) ==
    IF S = {} THEN EmptyBag
    ELSE LET r == CHOOSE x \in S : TRUE
             u == IF r.ip_address = ip THEN [r EXCEPT !.last_seen = t] ELSE r
         IN  [q \in {u} |-> CopiesIn(r, rows)] (+) UpdateRows(S \ {r}, rows, ip, t)

\* An UPDATE followed by an expiry: DELETE FROM table WHERE last_seen < ?.
SqlUpdateExpiring(rows, ip, t) ==
    LET upd == UpdateRows(BagToSet(rows), rows, ip, t)
    IN  [r \in {x \in BagToSet(upd) : x.last_seen >= t} |-> CopiesIn(r, upd)]

\* INSERT OR REPLACE in the place of the UPDATE: the row is written anew,
\* first_seen included.
SqlReplace(rows, ip, t) ==
    LET others == {x \in BagToSet(rows) : x.ip_address # ip}
    IN  [r \in others |-> CopiesIn(r, rows)] (+) SetToBag({Row(ip, t, t)})

SqlUpdate(rows, ip, t) == UpdateRows(BagToSet(rows), rows, ip, t)

\* An INSERT that names ip_address and first_seen alone: last_seen is left
\* to a default that is before every reading of the clock.
SqlInsertFirstSeenOnly(rows, ip, t) ==
    IF SqlSelect(rows, ip)
    THEN [ok |-> FALSE, rows |-> rows]
    ELSE [ok |-> TRUE, rows |-> rows (+) SetToBag({Row(ip, t, -1)})]

\* INSERT INTO table (ip_address, first_seen, last_seen) VALUES (?, ?, ?).
\* ip_address is the PRIMARY KEY: inserting a present key raises
\* sqlite3.IntegrityError (ok = FALSE) and inserts nothing.
SqlInsert(rows, ip, t) ==
    IF SqlSelect(rows, ip)
    THEN [ok |-> FALSE, rows |-> rows]
    ELSE [ok |-> TRUE, rows |-> rows (+) SetToBag({Row(ip, t, t)})]

\* The state of one update_host_database call between two statements: the
\* table as the call's connection sees it, the new_hosts list, and whether a
\* statement raised sqlite3.Error.
Txn(rows, new_hosts, failed) == [rows |-> rows, new_hosts |-> new_hosts, failed |-> failed]

\* A body of the loop that inserts without the SELECT and on a table without
\* the key.
UpsertStepBlindInsert(st, ip, t) ==
    Txn(st.rows (+) SetToBag({Row(ip, t, t)}), Append(st.new_hosts, ip), st.failed)

\* A body of the loop that reports the address whether or not it has a row.
UpsertStepAlwaysNew(st, ip, t) ==
    IF SqlSelect(st.rows, ip)
    THEN Txn(SqlUpdate(st.rows, ip, t), Append(st.new_hosts, ip), st.failed)
    ELSE Txn(SqlInsert(st.rows, ip, t).rows, Append(st.new_hosts, ip), st.failed)

\* One iteration of "for ip in ip_addresses".
UpsertStep(st, ip, t) ==
    IF SqlSelect(st.rows, ip)
    THEN Txn(SqlUpdate(st.rows, ip, t), st.new_hosts, st.failed)
    ELSE LET r == SqlInsert(st.rows, ip, t)
         IN  IF r.ok
             THEN Txn(r.rows, Append(st.new_hosts, ip), st.failed)
             ELSE Txn(st.rows, st.new_hosts, TRUE)

\* A connection in autocommit mode: every statement is durable at once.
AfterStatementAutocommit(durable, txnRows) == txnRows

\* The durable table after a statement of an open transaction: the connection
\* is opened with the default isolation level, so a transaction is begun before
\* the first INSERT/UPDATE and nothing is durable until commit().
AfterStatement(durable, txnRows) == durable

\* A commit() that was left out.
CommitTxnMissing(durable, txnRows) == durable

\* conn.commit()
CommitTxn(durable, txnRows) == txnRows

\* conn.close() without commit (the except branch, or the process dying):
\* the open transaction is rolled back.
RollbackTxn(durable, txnRows) == durable

\* The whole loop over ip_addresses, from statement k on.
RECURSIVE UpsertFrom(_, _, _, _)
UpsertFrom(st, ips, k, t) ==
    IF k > Len(ips) THEN st
    ELSE UpsertFrom(UpsertStep(st, ips[k], t), ips, k + 1, t)

UpsertAll(rows, ips, t) == UpsertFrom(Txn(rows, << >>, FALSE), ips, 1, t)

\* -------------------------------------------------------------------- state
VARIABLES
    db,        \* durable tables: port -> rows
    now,       \* the wall clock as the latest call has read it
    upc,       \* update_host_database: "idle", "loop" or "return"
    call,      \* the call in flight
    last,      \* the call that ended last
    watch,     \* one committed call, as <<port, set of addresses>>, or NoWatch
    config,    \* the port_* sections of the configuration, in file order
    save_to_file, \* the configuration's reports.save_to_file
    pc,        \* scan_ports: "start", "scan", "report", "done" or "failed"
    idx,       \* the section the loop of scan_ports is at
    report_groups, \* scan_ports' dict, as the sequence of its groups
    reports,   \* what generate_report has composed in this pass
    scanned,   \* per section processed: how its scan command ended
    stored,    \* per section processed: the entry it put in report_groups
    mode,      \* --mode: "cron" or "standalone"
    main,      \* main(): "startup", "cron", "loop" or "returned"
    exit_status, \* what main() returns, once main = "returned"
    passes,    \* the calls of scan_ports so far
    inprogress, \* what is in progress: passes, scan commands, store writes
    due,       \* standalone mode: the daily job is due
    interrupted, \* a KeyboardInterrupt has been delivered
    store_ok,  \* the database file can be opened
    tables,    \* the ports that have a table in the database file
    step,      \* the iteration of scan_ports in progress, or NoStep
    output,    \* the stdout of a scan command that has exited with status 0
    ip_addresses, \* what the scan method has made of it, or NotParsed
    listed     \* the <<port, host>> listed as new in reports of earlier passes

storeVars == <<upc, call, last, watch>>
passVars == <<config, save_to_file, pc, idx, report_groups, reports, scanned, stored>>
runVars == <<mode, main, exit_status, passes, inprogress, due, interrupted, store_ok,
             tables, step>>
parseVars == <<output, ip_addresses>>
vars == <<db, now, upc, call, last, watch, config, save_to_file, pc, idx, report_groups,
          reports, scanned, stored, mode, main, exit_status, passes, inprogress, due,
          interrupted, store_ok, tables, step, output, ip_addresses, listed>>

NoCall == [port |-> 0, ips |-> << >>, k |-> 0, time |-> 0, pre |-> EmptyBag,
           txn |-> Txn(EmptyBag, << >>, FALSE)]

NoWatch == <<0, {}>>

NoLast == [status |-> "none", result |-> << >>, again |-> FALSE, partial |-> FALSE]

\* How the call in flight ends: its status, what it returns, whether a call
\* on the same port with the same set of addresses is the watched one, and
\* whether its connection had changed the table it saw.
Ended(status, result) ==
    [status |-> status, result |-> result,
     again |-> <<call.port, Range(call.ips)>> = watch,
     partial |-> call.txn.rows # call.pre]

\* The call in flight once it has ended without a commit: its connection and
\* the transaction it held are gone.
Closed == [call EXCEPT !.k = 0, !.txn = NoCall.txn]

\* No scan output is being parsed, and no report has been made yet.
NotParsed == [by |-> "none", ips |-> << >>]

NoHistory ==
    /\ output = << >>
    /\ ip_addresses = NotParsed
    /\ listed = {}

\* The <<port, host>> that the reports of a pass list as new hosts.
ListedIn(reps) ==
    {<<reps[x[1]].body[x[2]].port, reps[x[1]].body[x[2]].hosts[x[3]]>> :
        x \in {y \in (1..Len(reps)) \X (1..Len(config)) \X (1..MaxIps) :
                  /\ y[2] <= Len(reps[y[1]].body)
                  /\ y[3] <= Len(reps[y[1]].body[y[2]].hosts)}}

\* Nothing in progress.
Quiet == [passes |-> 0, scans |-> 0, writes |-> 0]

NoStep == [phase |-> "none"]

\* main() has started up in cron mode on a database file that has a table
\* for every port and stays readable, and run_cron_mode is about to call
\* scan_ports.
InCronMode ==
    /\ mode = "cron"
    /\ main = "cron"
    /\ exit_status = 0
    /\ passes = 0
    /\ inprogress = Quiet
    /\ due = 0
    /\ interrupted = FALSE
    /\ store_ok = TRUE
    /\ tables = Ports
    /\ step = NoStep
    /\ NoHistory

StoreInit ==
    /\ db = EmptyDb
    /\ now = 0
    /\ upc = "idle"
    /\ call = NoCall
    /\ last = NoLast
    /\ watch = NoWatch
    /\ config = << >>
    /\ save_to_file = FALSE
    /\ pc = "done"
    /\ idx = 0
    /\ report_groups = << >>
    /\ reports = << >>
    /\ scanned = << >>
    /\ stored = << >>
    /\ InCronMode

\* A call with an empty list that goes on to connect and commit.
UpsertEmptyConnecting ==
    /\ upc = "idle"
    /\ \E p \in Ports :
          call' = [NoCall EXCEPT !.port = p, !.k = 1, !.pre = db[p],
                                 !.txn = Txn(db[p], << >>, FALSE)]
    /\ upc' = "loop"
    /\ UNCHANGED <<db, now, last, watch>>
    /\ UNCHANGED passVars
    /\ UNCHANGED runVars
    /\ UNCHANGED parseVars
    /\ UNCHANGED listed

\* update_host_database(port, []) : "if not ip_addresses: return []".
UpsertEmpty ==
    /\ upc = "idle"
    /\ \E p \in Ports :
          call' = [NoCall EXCEPT !.port = p, !.pre = db[p], !.txn = Txn(db[p], << >>, FALSE)]
    /\ last' = [NoLast EXCEPT !.status = "empty"]
    /\ upc' = "return"
    /\ UNCHANGED <<db, now, watch>>
    /\ UNCHANGED passVars
    /\ UNCHANGED runVars
    /\ UNCHANGED parseVars
    /\ UNCHANGED listed

\* update_host_database(port, ips) up to the loop: connect and read the clock,
\* which has not gone back since the call before.
UpsertBegin ==
    /\ upc = "idle"
    /\ \E p \in Ports, ips \in IpLists \ {<< >>}, t \in now..MaxClock :
          /\ call' = [port |-> p, ips |-> ips, k |-> 1, time |-> t, pre |-> db[p],
                      txn |-> Txn(db[p], << >>, FALSE)]
          /\ now' = t
    /\ upc' = "loop"
    /\ UNCHANGED <<db, last, watch>>
    /\ UNCHANGED passVars
    /\ UNCHANGED runVars
    /\ UNCHANGED parseVars
    /\ UNCHANGED listed

\* One iteration of the loop.
UpsertLoop ==
    /\ upc = "loop"
    /\ call.k <= Len(call.ips)
    /\ ~call.txn.failed
    /\ LET st == UpsertStep(call.txn, call.ips[call.k], call.time)
       IN  /\ call' = [call EXCEPT !.txn = st, !.k = @ + 1]
           /\ db' = [db EXCEPT ![call.port] = AfterStatement(@, st.rows)]
    /\ UNCHANGED <<now, upc, last, watch>>
    /\ UNCHANGED passVars
    /\ UNCHANGED runVars
    /\ UNCHANGED parseVars
    /\ UNCHANGED listed

\* A commit on a database that keeps one table for all ports.
UpsertCommitAllPorts ==
    /\ upc = "loop"
    /\ call.k > Len(call.ips)
    /\ ~call.txn.failed
    /\ db' = [p \in Ports |-> CommitTxn(db[p], call.txn.rows)]
    /\ last' = Ended("committed", call.txn.new_hosts)
    /\ upc' = "return"
    /\ UNCHANGED <<now, call, watch>>
    /\ UNCHANGED passVars
    /\ UNCHANGED runVars
    /\ UNCHANGED parseVars
    /\ UNCHANGED listed

\* conn.commit(); return new_hosts
UpsertCommit ==
    /\ upc = "loop"
    /\ call.k > Len(call.ips)
    /\ ~call.txn.failed
    /\ db' = [db EXCEPT ![call.port] = CommitTxn(@, call.txn.rows)]
    /\ last' = Ended("committed", call.txn.new_hosts)
    /\ upc' = "return"
    /\ UNCHANGED <<now, call, watch>>
    /\ UNCHANGED passVars
    /\ UNCHANGED runVars
    /\ UNCHANGED parseVars
    /\ UNCHANGED listed

\* The same, and the call is the one to watch from now on.
UpsertCommitWatched ==
    /\ upc = "loop"
    /\ call.k > Len(call.ips)
    /\ ~call.txn.failed
    /\ watch = NoWatch
    /\ db' = [db EXCEPT ![call.port] = CommitTxn(@, call.txn.rows)]
    /\ last' = Ended("committed", call.txn.new_hosts)
    /\ watch' = <<call.port, Range(call.ips)>>
    /\ upc' = "return"
    /\ UNCHANGED <<now, call>>
    /\ UNCHANGED passVars
    /\ UNCHANGED runVars
    /\ UNCHANGED parseVars
    /\ UNCHANGED listed

\* A statement (or the commit) raises sqlite3.Error: log, return [], close.
UpsertError ==
    /\ upc = "loop"
    /\ db' = [db EXCEPT ![call.port] = RollbackTxn(@, call.txn.rows)]
    /\ last' = Ended("error", << >>)
    /\ call' = Closed
    /\ upc' = "return"
    /\ UNCHANGED <<now, watch>>
    /\ UNCHANGED passVars
    /\ UNCHANGED runVars
    /\ UNCHANGED parseVars
    /\ UNCHANGED listed

\* The process dies inside the call; the next process finds the database file.
UpsertCrash ==
    /\ upc = "loop"
    /\ ~call.txn.failed
    /\ db' = [db EXCEPT ![call.port] = RollbackTxn(@, call.txn.rows)]
    /\ last' = Ended("crashed", << >>)
    /\ call' = Closed
    /\ upc' = "return"
    /\ UNCHANGED <<now, watch>>
    /\ UNCHANGED passVars
    /\ UNCHANGED runVars
    /\ UNCHANGED parseVars
    /\ UNCHANGED listed

\* The call is over (finally: conn.close()); the caller, or after a crash the
\* next process, goes on.
UpsertReturn ==
    /\ upc = "return"
    /\ upc' = "idle"
    /\ call' = NoCall
    /\ last' = NoLast
    /\ UNCHANGED <<db, now, watch>>
    /\ UNCHANGED passVars
    /\ UNCHANGED runVars
    /\ UNCHANGED parseVars
    /\ UNCHANGED listed

StoreNext ==
    \/ UpsertEmpty
    \/ UpsertBegin
    \/ UpsertLoop
    \/ UpsertCommit
    \/ UpsertError
    \/ UpsertCrash
    \/ UpsertReturn

StoreSpec == StoreInit /\ [][StoreNext]_vars

\* The presence store with one committed call remembered.
WatchNext ==
    \/ UpsertEmpty
    \/ UpsertBegin
    \/ UpsertLoop
    \/ UpsertCommit
    \/ UpsertCommitWatched
    \/ UpsertError
    \/ UpsertCrash
    \/ UpsertReturn

WatchSpec == StoreInit /\ [][WatchNext]_vars

\* ------------------------------------------------------------ the coordinator
\* A port_* section of the configuration. port is set (a section without a
\* port is skipped by scan_ports with a warning and is not modelled); label,
\* email, nmap_scan and command are "" when the section leaves them out.
Labels == {"", "web"}
Emails == {"", "ops@example.org"}
NmapArgs == {"", "nmap -p {port} 10.0.0.0/24"}
Commands == {"", "scan.sh {port}"}

Sections ==
    {s \in [port : Ports, label : Labels, email : Emails,
            nmap_scan : NmapArgs, command : Commands] :
        s.nmap_scan = "" \/ s.command = ""}

\* The configuration files: two port_* sections, in file order.
Configs == [1..2 -> Sections]

\* f"Port_{port}"
PortName == (80 :> "Port_80") @@ (443 :> "Port_443")

\* A key made of the label alone.
GroupKeyByLabel(sec) ==
    <<IF sec.label # "" THEN sec.label ELSE PortName[sec.port], "">>

\* group_key = (label or f"Port_{port}", email)
GroupKey(sec) ==
    <<IF sec.label # "" THEN sec.label ELSE PortName[sec.port], sec.email>>

\* How a scan command can end: exit status 0 with the addresses its output
\* holds, a non-zero exit status (with what it wrote to stderr and to stdout),
\* subprocess.TimeoutExpired, or another exception of subprocess.run.
ExitCodes == {1}
Stderrs == {"", "boom"}

ScanResults ==
    [kind : {"ok"}, code : {0}, stderr : {""}, found : IpLists]
    \cup [kind : {"exit"}, code : ExitCodes, stderr : Stderrs, found : IpLists]
    \cup [kind : {"timeout", "oserror"}, code : {0}, stderr : {""}, found : {<< >>}]

\* An error text of a port's outcome; NoError is None.
NoError == [msg |-> "", code |-> 0, detail |-> ""]
NoScanMethod == [msg |-> "No scan method defined", code |-> 0, detail |-> ""]

\* f"Command failed with return code {rc}: {command}" [+ f" - {stderr}"]
CommandFailed(code, stderr) ==
    [msg |-> "Command failed with return code", code |-> code, detail |-> stderr]

\* list(dict.fromkeys(ip_addresses)): first occurrences, in order.
RECURSIVE Dedup(_)
Dedup(s) ==
    IF s = << >> THEN << >>
    ELSE LET init == Dedup(SubSeq(s, 1, Len(s) - 1))
             x == s[Len(s)]
         IN  IF x \in Range(init) THEN init ELSE Append(init, x)

\* execute_command: raises on a non-zero exit status, returns the addresses
\* of the output without repetitions on exit status 0, and [] on a timeout
\* or any other exception.
ExecuteCommand(res) ==
    CASE res.kind = "exit" ->
            [raised |-> TRUE, error |-> CommandFailed(res.code, res.stderr), ips |-> << >>]
      [] res.kind = "ok" ->
            [raised |-> FALSE, error |-> NoError, ips |-> Dedup(res.found)]
      [] OTHER ->
            [raised |-> FALSE, error |-> NoError, ips |-> << >>]

\* nmap_scan: returns [] on a non-zero exit status, on a timeout and on any
\* other exception, and one address per "Nmap scan report for" line on exit
\* status 0; it never raises.
NmapScan(res) ==
    CASE res.kind = "ok" ->
            [raised |-> FALSE, error |-> NoError, ips |-> res.found]
      [] OTHER ->
            [raised |-> FALSE, error |-> NoError, ips |-> << >>]

\* An update_host_database that returns every address it was given.
UpdateHostDatabaseAllSeen(rows, ips, t, dbOk) ==
    IF ips = << >>
    THEN [rows |-> rows, new_hosts |-> << >>, connect |-> FALSE]
    ELSE LET st == UpsertAll(rows, ips, t)
         IN  IF dbOk /\ ~st.failed
             THEN [rows |-> CommitTxn(rows, st.rows), new_hosts |-> ips, connect |-> TRUE]
             ELSE [rows |-> RollbackTxn(rows, st.rows), new_hosts |-> << >>,
                   connect |-> TRUE]

\* update_host_database as one call: its result, the table it leaves and
\* whether it opens the database file (sqlite3.connect, which it does not
\* for an empty list). dbOk = FALSE: a statement or the commit raises
\* sqlite3.Error.
UpdateHostDatabase(rows, ips, t, dbOk) ==
    IF ips = << >>
    THEN [rows |-> rows, new_hosts |-> << >>, connect |-> FALSE]
    ELSE LET st == UpsertAll(rows, ips, t)
         IN  IF dbOk /\ ~st.failed
             THEN [rows |-> CommitTxn(rows, st.rows), new_hosts |-> st.new_hosts,
                   connect |-> TRUE]
             ELSE [rows |-> RollbackTxn(rows, st.rows), new_hosts |-> << >>,
                   connect |-> TRUE]

\* A port's entry in a group: report_groups[group_key]['ports'][port].
Entry(port, hosts, error) == [port |-> port, hosts |-> hosts, error |-> error]

\* An iteration that takes the addresses on stdout of a failed command for
\* its scan result.
SectionStepNoIsolation(sec, res, rows, t, dbOk) ==
    LET up == UpdateHostDatabase(rows, res.found, t, dbOk)
    IN  IF sec.nmap_scan = "" /\ sec.command = ""
        THEN [entry |-> Entry(sec.port, << >>, NoScanMethod), rows |-> rows, upsert |-> FALSE,
              ran |-> FALSE, connect |-> FALSE]
        ELSE IF res.kind = "exit" /\ sec.nmap_scan = ""
        THEN [entry |-> Entry(sec.port, << >>, CommandFailed(res.code, res.stderr)),
              rows |-> up.rows, upsert |-> TRUE, ran |-> TRUE, connect |-> up.connect]
        ELSE [entry |-> Entry(sec.port, up.new_hosts, NoError), rows |-> up.rows, upsert |-> TRUE,
              ran |-> TRUE, connect |-> up.connect]

\* One iteration of the loop of scan_ports, from the choice of the scan
\* method on: the entry it stores for the port, the port's table after it,
\* whether a scan command was run, whether update_host_database was called
\* and whether that call opened the database file.
SectionStep(sec, res, rows, t, dbOk) ==
    IF sec.nmap_scan = "" /\ sec.command = ""
    THEN [entry |-> Entry(sec.port, << >>, NoScanMethod), rows |-> rows, upsert |-> FALSE,
          ran |-> FALSE, connect |-> FALSE]
    ELSE LET scan == IF sec.nmap_scan # "" THEN NmapScan(res) ELSE ExecuteCommand(res)
         IN  IF scan.raised
             THEN [entry |-> Entry(sec.port, << >>, scan.error), rows |-> rows,
                   upsert |-> FALSE, ran |-> TRUE, connect |-> FALSE]
             ELSE LET up == UpdateHostDatabase(rows, scan.ips, t, dbOk)
                  IN  [entry |-> Entry(sec.port, up.new_hosts, NoError), rows |-> up.rows,
                       upsert |-> TRUE, ran |-> TRUE, connect |-> up.connect]

\* report_groups as a dict in insertion order: the position of a key, or 0.
GroupIndex(groups, key) ==
    IF \E g \in 1..Len(groups) : groups[g].key = key
    THEN CHOOSE g \in 1..Len(groups) : groups[g].key = key
    ELSE 0

\* "if group_key not in report_groups: report_groups[group_key] = {...}"
EnsureGroup(groups, key) ==
    IF GroupIndex(groups, key) # 0 THEN groups
    ELSE Append(groups, [key |-> key, label |-> key[1], email |-> key[2], ports |-> << >>])

\* ports[port] = entry, on a dict in insertion order: a present key keeps its
\* place and has its value replaced.
PutEntry(ports, entry) ==
    IF \E k \in 1..Len(ports) : ports[k].port = entry.port
    THEN [k \in 1..Len(ports) |-> IF ports[k].port = entry.port THEN entry ELSE ports[k]]
    ELSE Append(ports, entry)

\* report_groups[group_key]['ports'][port] = entry
StoreEntry(groups, key, entry) ==
    LET gs == EnsureGroup(groups, key)
        g == GroupIndex(gs, key)
    IN  [gs EXCEPT ![g].ports = PutEntry(@, entry)]

\* A rendering that shows a failed port as a port without new hosts.
RenderingSilentFailure(entry) ==
    [port |-> entry.port,
     shown |-> IF entry.error = NoError /\ entry.hosts # << >> THEN "hosts"
               ELSE "No new hosts detected.",
     error |-> entry.error,
     hosts |-> IF entry.error # NoError THEN << >> ELSE entry.hosts]

\* generate_report: what it composes for a group. Each port of the group is
\* rendered as the failure marker, the list of its new hosts, or "No new hosts
\* detected."; the totals are counted on the way.
Rendering(entry) ==
    [port |-> entry.port,
     shown |-> IF entry.error # NoError THEN "SCAN FAILED"
               ELSE IF entry.hosts # << >> THEN "hosts"
               ELSE "No new hosts detected.",
     error |-> entry.error,
     hosts |-> IF entry.error # NoError THEN << >> ELSE entry.hosts]

\* A count of the ports that have new hosts in the place of the hosts.
SumHostsCountingPorts(rs) ==
    Cardinality({k \in 1..Len(rs) : rs[k].shown = "hosts"})

RECURSIVE SumHosts(_)
SumHosts(rs) ==
    IF rs = << >> THEN 0
    ELSE (IF rs[1].shown = "hosts" THEN Len(rs[1].hosts) ELSE 0) + SumHosts(Tail(rs))

\* A choice of the subject that looks at the new hosts first.
SubjectHostsFirst(label, total_new_hosts, total_errors) ==
    IF total_new_hosts > 0
    THEN <<label, total_new_hosts,
           IF total_new_hosts # 1 THEN "new hosts detected" ELSE "new host detected">>
    ELSE IF total_errors > 0
    THEN <<label, "Scan failures detected">>
    ELSE <<label, "No new hosts detected">>

\* The subject line, "Harbinger Report for {label}: ..." as the pieces the
\* f-string puts together: the label, then the text with the counts in it.
Subject(label, total_new_hosts, total_errors) ==
    IF total_errors > 0 /\ total_new_hosts = 0
    THEN <<label, "Scan failures detected">>
    ELSE IF total_new_hosts > 0 /\ total_errors > 0
    THEN <<label, total_new_hosts, "new hosts detected,", total_errors, "scan failures">>
    ELSE IF total_new_hosts > 0
    THEN <<label, total_new_hosts,
           IF total_new_hosts # 1 THEN "new hosts detected" ELSE "new host detected">>
    ELSE <<label, "No new hosts detected">>

\* section_data.get(field, ''): a section that leaves the field out is a
\* record without it.
Get(sec, field) == IF field \in DOMAIN sec THEN sec[field] ELSE ""

\* get_port_port_label: the port_label of the first section of the
\* configuration that declares the port.
GetPortPortLabel(cfg, port) ==
    IF \E i \in 1..Len(cfg) : cfg[i].port = port
    THEN LET i == CHOOSE i \in 1..Len(cfg) :
                    cfg[i].port = port /\ \A j \in 1..(i - 1) : cfg[j].port # port
         IN  Get(cfg[i], "port_label")
    ELSE ""

\* f"Port {port} ({port_label}):" or f"Port {port}:"
PortHeader(port, port_label) ==
    IF port_label # "" THEN <<"Port", port, "(", port_label, "):">> ELSE <<"Port", port, ":">>

\* get_port_post_command: the post_command of the first section of the
\* configuration that declares the port.
GetPortPostCommand(cfg, port) ==
    IF \E i \in 1..Len(cfg) : cfg[i].port = port
    THEN LET i == CHOOSE i \in 1..Len(cfg) :
                    cfg[i].port = port /\ \A j \in 1..(i - 1) : cfg[j].port # port
         IN  Get(cfg[i], "post_command")
    ELSE ""

\* How a post_command can end: exit status 0 with what it wrote to stdout,
\* a non-zero exit status with what it wrote to stderr, a timeout, or another
\* exception.
Stdouts == {"", "banner"}

PostResults ==
    [kind : {"ok"}, text : Stdouts]
    \cup [kind : {"exit"}, text : {"refused"}]
    \cup [kind : {"timeout"}, text : {""}]
    \cup [kind : {"oserror"}, text : {"No such file"}]

\* An execute_post_command that lets the failure of the command out as an
\* exception.
ExecutePostCommandRaising(res) ==
    IF res.kind = "ok"
    THEN [raised |-> FALSE, output |-> IF res.text = "" THEN << >> ELSE <<res.text>>]
    ELSE [raised |-> TRUE, output |-> << >>]

\* execute_post_command on a command template that is set: the stripped
\* stdout on exit status 0 (nothing when it is empty), and a marker in
\* brackets otherwise; every exception is caught.
ExecutePostCommand(res) ==
    CASE res.kind = "ok" ->
            [raised |-> FALSE, output |-> IF res.text = "" THEN << >> ELSE <<res.text>>]
      [] res.kind = "exit" ->
            [raised |-> FALSE, output |-> <<"[Command failed:", res.text, "]">>]
      [] res.kind = "timeout" ->
            [raised |-> FALSE, output |-> <<"[Command timed out]">>]
      [] OTHER ->
            [raised |-> FALSE, output |-> <<"[Command error:", res.text, "]">>]

\* The places of a group's report where a post_command is run: host h of
\* the group's k-th port, for the ports that have new hosts and a
\* post_command by get_port_post_command.
PostSlots(group, cfg) ==
    {s \in (1..Len(group.ports)) \X (1..MaxIps) :
        /\ group.ports[s[1]].error = NoError
        /\ s[2] <= Len(group.ports[s[1]].hosts)
        /\ GetPortPostCommand(cfg, group.ports[s[1]].port) # ""}

\* What follows host h of the k-th port in the body: nothing when no
\* post_command is run, otherwise the output of the command. The command,
\* the host, the port and the way the command ended are kept with it.
PostOutput(group, cfg, runs, k, h) ==
    LET port == group.ports[k].port
        cmd == GetPortPostCommand(cfg, port)
    IN  IF <<k, h>> \in DOMAIN runs
        THEN [ran |-> TRUE, command |-> cmd, host |-> group.ports[k].hosts[h], port |-> port,
              result |-> runs[<<k, h>>], raised |-> ExecutePostCommand(runs[<<k, h>>]).raised,
              output |-> ExecutePostCommand(runs[<<k, h>>]).output]
        ELSE [ran |-> FALSE, command |-> cmd, host |-> group.ports[k].hosts[h], port |-> port,
              result |-> [kind |-> "none", text |-> ""], raised |-> FALSE, output |-> << >>]

\* What the environment does to a sink that is used.
SinkOutcomes == {"ok", "fails"}

\* A send_email that lets the failure of the transport out as an exception.
SendEmailRaising(outcome) ==
    [raised |-> outcome # "ok", emailed |-> IF outcome = "ok" THEN "sent" ELSE "failed"]

\* send_email: the message is handed to the mail command or to the SMTP
\* server; a failure of either is logged and nothing is raised.
SendEmail(outcome) ==
    [raised |-> FALSE, emailed |-> IF outcome = "ok" THEN "sent" ELSE "failed"]

\* Most seconds between the first and the last report of a pass.
MaxSeconds == 1

\* label.replace(' ', '_'), on the labels of the configurations.
SafeLabel(label) == IF label = "web ui" THEN "web_ui" ELSE label

\* f"{reports_dir}/{safe_label}_{timestamp}.txt", the timestamp being the
\* clock to the second.
FileName(label, timestamp) == <<SafeLabel(label), "_", timestamp, ".txt">>

NoFile == << >>

\* The seconds the clock can show when the next report of the pass is
\* saved, counted from the second of the first: the second of the report
\* before, or a later one.
Timestamps(enabled, reps) ==
    IF ~enabled \/ reps = << >> THEN {0}
    ELSE {t \in 0..MaxSeconds : t >= reps[Len(reps)].timestamp}

\* save_report_to_file: nothing when reports.save_to_file is off; otherwise
\* the file of that name is opened with mode 'w' and written, and a failure
\* to write it is logged and not raised.
SaveReportToFile(enabled, label, timestamp, outcome) ==
    [raised |-> FALSE,
     saved |-> IF ~enabled THEN "disabled" ELSE IF outcome = "ok" THEN "written" ELSE "failed",
     filename |-> IF enabled /\ outcome = "ok" THEN FileName(label, timestamp) ELSE NoFile]

\* A dispatch that sends the email only when there is something to tell.
DispatchWhenNews(email, total_new_hosts, total_errors) ==
    email # "" /\ total_new_hosts + total_errors > 0

\* "if email_address:" - whether generate_report calls send_email.
Dispatch(email, total_new_hosts, total_errors) == email # ""

\* generate_report for a group: the body and the counts, the subject, and
\* the dispatch to the sinks. runs gives how each post_command run ends, mail
\* and file what happens to the sinks. raised: an exception leaves
\* generate_report.
GenerateReport(group, cfg, enabled, runs, mail, file, timestamp) ==
    LET body == [k \in 1..Len(group.ports) |-> Rendering(group.ports[k])]
        headers == [k \in 1..Len(group.ports) |->
                       PortHeader(group.ports[k].port,
                                  GetPortPortLabel(cfg, group.ports[k].port))]
        post == [k \in 1..Len(group.ports) |->
                    [h \in 1..Len(body[k].hosts) |-> PostOutput(group, cfg, runs, k, h)]]
        total_new_hosts == SumHosts(body)
        total_errors == Cardinality({k \in 1..Len(body) : body[k].shown = "SCAN FAILED"})
        send == Dispatch(group.email, total_new_hosts, total_errors)
        sent == IF send THEN SendEmail(mail) ELSE [raised |-> FALSE, emailed |-> "none"]
        save == SaveReportToFile(enabled, group.label, timestamp, file)
        postRaised == \E k \in 1..Len(post) : \E h \in 1..Len(post[k]) : post[k][h].raised
    IN  [raised |-> postRaised \/ sent.raised \/ save.raised,
         report |-> [label |-> group.label,
                     email |-> group.email,
                     headers |-> headers,
                     body |-> body,
                     post |-> post,
                     total_new_hosts |-> total_new_hosts,
                     total_errors |-> total_errors,
                     subject |-> Subject(group.label, total_new_hosts, total_errors),
                     emailed |-> sent.emailed,
                     saved |-> save.saved,
                     timestamp |-> timestamp,
                     filename |-> save.filename]]

\* The database file as earlier passes have left it: fresh, or with one host
\* recorded on port 80 at time 0.
SeedDbs ==
    {EmptyDb, [EmptyDb EXCEPT ![80] = UpsertAll(EmptyBag, <<"10.0.0.1">>, 0).rows]}

Init ==
    /\ db \in SeedDbs
    /\ now = 0
    /\ upc = "idle"
    /\ call = NoCall
    /\ last = NoLast
    /\ watch = NoWatch
    /\ config \in Configs
    /\ save_to_file = FALSE
    /\ pc = "start"
    /\ idx = 0
    /\ report_groups = << >>
    /\ reports = << >>
    /\ scanned = << >>
    /\ stored = << >>
    /\ InCronMode

\* scan_ports is entered (run_cron_mode, or the daily job).
StartPass ==
    /\ pc = "start"
    /\ pc' = "scan"
    /\ idx' = 1
    /\ report_groups' = << >>
    /\ reports' = << >>
    /\ scanned' = << >>
    /\ stored' = << >>
    /\ passes' = passes + 1
    /\ inprogress' = [inprogress EXCEPT !.passes = @ + 1]
    /\ UNCHANGED <<db, now, config, save_to_file>>
    /\ UNCHANGED storeVars
    /\ UNCHANGED <<mode, main, exit_status, due, interrupted, store_ok, tables, step>>
    /\ UNCHANGED parseVars
    /\ listed' = listed \cup ListedIn(reports)

\* Whether the statements of an update_host_database call can go through:
\* on a port without a table the first statement raises sqlite3.Error.
StatementOutcomes(port, tbls) == IF port \in tbls THEN BOOLEAN ELSE {FALSE}

\* How the scan command of a section ended, "none" for a section without a
\* scan method.
Scanned(sec, res) ==
    IF sec.nmap_scan = "" /\ sec.command = ""
    THEN [kind |-> "none", code |-> 0, stderr |-> ""]
    ELSE [kind |-> res.kind, code |-> res.code, stderr |-> res.stderr]

\* One iteration of "for section_name, section_data in self.config.items()":
\* the section's scan, its database update and its entry in report_groups.
\* When update_host_database cannot open the database file, sqlite3.connect
\* raises outside its try and the exception leaves scan_ports.
\* The clock moves on with every scan, so each update_host_database call
\* reads a time later than the call before it.
ScanSection ==
    /\ pc = "scan"
    /\ idx <= Len(config)
    /\ LET sec == config[idx]
       IN  \E res \in ScanResults, dbOk \in StatementOutcomes(sec.port, tables) :
              LET it == SectionStep(sec, res, db[sec.port], now + 1, dbOk)
              IN  IF it.connect /\ ~store_ok
                  THEN /\ pc' = "failed"
                       /\ report_groups' = EnsureGroup(report_groups, GroupKey(sec))
                       /\ UNCHANGED <<db, now, idx, scanned, stored>>
                  ELSE /\ db' = [db EXCEPT ![sec.port] = it.rows]
                       /\ now' = now + 1
                       /\ report_groups' = StoreEntry(report_groups, GroupKey(sec), it.entry)
                       /\ scanned' = Append(scanned, Scanned(sec, res))
                       /\ stored' = Append(stored, it.entry)
                       /\ idx' = idx + 1
                       /\ pc' = pc
    /\ UNCHANGED <<config, save_to_file, reports>>
    /\ UNCHANGED storeVars
    /\ UNCHANGED runVars
    /\ UNCHANGED parseVars
    /\ UNCHANGED listed

\* The loop over the sections is over; the loop over the groups begins.
ScanDone ==
    /\ pc = "scan"
    /\ idx > Len(config)
    /\ pc' = "report"
    /\ idx' = 1
    /\ UNCHANGED <<db, now, config, save_to_file, report_groups, reports, scanned, stored>>
    /\ UNCHANGED storeVars
    /\ UNCHANGED runVars
    /\ UNCHANGED parseVars
    /\ UNCHANGED listed

\* One iteration of "for group_key, group_data in report_groups.items()":
\* generate_report for the group. An exception that leaves generate_report
\* leaves scan_ports too.
ReportGroup ==
    /\ pc = "report"
    /\ idx <= Len(report_groups)
    /\ LET group == report_groups[idx]
       IN  \E runs \in [PostSlots(group, config) -> PostResults],
              mail \in IF group.email = "" THEN {"ok"} ELSE SinkOutcomes,
              file \in IF save_to_file THEN SinkOutcomes ELSE {"ok"},
              timestamp \in Timestamps(save_to_file, reports) :
              LET gen == GenerateReport(group, config, save_to_file, runs, mail, file, timestamp)
              IN  IF gen.raised
                  THEN pc' = "failed" /\ UNCHANGED <<idx, reports>>
                  ELSE /\ reports' = Append(reports, gen.report)
                       /\ idx' = idx + 1
                       /\ pc' = pc
    /\ UNCHANGED <<db, now, config, save_to_file, report_groups, scanned, stored>>
    /\ UNCHANGED storeVars
    /\ UNCHANGED runVars
    /\ UNCHANGED parseVars
    /\ UNCHANGED listed

\* scan_ports returns.
PassDone ==
    /\ pc = "report"
    /\ idx > Len(report_groups)
    /\ pc' = "done"
    /\ inprogress' = [inprogress EXCEPT !.passes = @ - 1]
    /\ UNCHANGED <<db, now, config, save_to_file, idx, report_groups, reports, scanned, stored>>
    /\ UNCHANGED storeVars
    /\ UNCHANGED <<mode, main, exit_status, passes, due, interrupted, store_ok, tables, step>>
    /\ UNCHANGED parseVars
    /\ UNCHANGED listed

Next ==
    \/ StartPass
    \/ ScanSection
    \/ ScanDone
    \/ ReportGroup
    \/ PassDone

Spec == Init /\ [][Next]_vars

\* The pass with file reports on or off: profiles scanned by a command,
\* without post_command.
ReportProfiles ==
    [port : Ports, label : Labels, email : Emails, nmap_scan : {""},
     command : Commands \ {""}]

ReportConfigs == [1..2 -> ReportProfiles]

ReportInit ==
    /\ db \in SeedDbs
    /\ now = 0
    /\ upc = "idle"
    /\ call = NoCall
    /\ last = NoLast
    /\ watch = NoWatch
    /\ config \in ReportConfigs
    /\ save_to_file \in BOOLEAN
    /\ pc = "start"
    /\ idx = 0
    /\ report_groups = << >>
    /\ reports = << >>
    /\ scanned = << >>
    /\ stored = << >>
    /\ InCronMode

ReportSpec == ReportInit /\ [][Next]_vars

\* The pass with enrichment: profiles scanned by a command, with or without
\* a post_command, that report to no email address.
PostCommands == {"", "probe.py {host} {port}"}

EnrichProfiles ==
    [port : Ports, label : Labels, email : {""}, nmap_scan : {""},
     command : Commands \ {""}, post_command : PostCommands]

EnrichConfigs == [1..2 -> EnrichProfiles]

EnrichInit ==
    /\ db \in SeedDbs
    /\ now = 0
    /\ upc = "idle"
    /\ call = NoCall
    /\ last = NoLast
    /\ watch = NoWatch
    /\ config \in EnrichConfigs
    /\ save_to_file = FALSE
    /\ pc = "start"
    /\ idx = 0
    /\ report_groups = << >>
    /\ reports = << >>
    /\ scanned = << >>
    /\ stored = << >>
    /\ InCronMode

EnrichSpec == EnrichInit /\ [][Next]_vars

\* The pass with port labels: profiles of port 80 scanned by a command, with
\* or without a label, a port_label and a post_command, that report to no
\* email address.
PortLabels == {"", "HTTP"}

LabelProfiles ==
    [port : {80}, label : Labels, email : {""}, nmap_scan : {""},
     command : Commands \ {""}, port_label : PortLabels, post_command : PostCommands]

LabelConfigs == [1..2 -> LabelProfiles]

LabelInit ==
    /\ db \in SeedDbs
    /\ now = 0
    /\ upc = "idle"
    /\ call = NoCall
    /\ last = NoLast
    /\ watch = NoWatch
    /\ config \in LabelConfigs
    /\ save_to_file = FALSE
    /\ pc = "start"
    /\ idx = 0
    /\ report_groups = << >>
    /\ reports = << >>
    /\ scanned = << >>
    /\ stored = << >>
    /\ InCronMode

LabelSpec == LabelInit /\ [][Next]_vars

\* The pass with file reports on: profiles of port 80 scanned by a command,
\* whose labels differ in a blank and an underscore.
FileProfiles ==
    [port : {80}, label : {"web ui", "web_ui"}, email : Emails, nmap_scan : {""},
     command : Commands \ {""}]

FileConfigs == [1..2 -> FileProfiles]

FileInit ==
    /\ db \in SeedDbs
    /\ now = 0
    /\ upc = "idle"
    /\ call = NoCall
    /\ last = NoLast
    /\ watch = NoWatch
    /\ config \in FileConfigs
    /\ save_to_file = TRUE
    /\ pc = "start"
    /\ idx = 0
    /\ report_groups = << >>
    /\ reports = << >>
    /\ scanned = << >>
    /\ stored = << >>
    /\ InCronMode

FileSpec == FileInit /\ [][Next]_vars

\* ------------------------------------------------- the iteration, step by step
\* The end of an iteration of scan_ports that stores an entry for the port.
Finish(sec, res, it) ==
    /\ report_groups' = StoreEntry(report_groups, GroupKey(sec), it.entry)
    /\ scanned' = Append(scanned, Scanned(sec, res))
    /\ stored' = Append(stored, it.entry)
    /\ idx' = idx + 1
    /\ now' = now + 1
    /\ step' = NoStep

\* An iteration begins: the group of the section is looked up or made, and
\* the scan command of the section is started (subprocess.run), or the
\* section has no scan method and its failure is stored at once.
BeginSection ==
    /\ pc = "scan"
    /\ idx <= Len(config)
    /\ LET sec == config[idx]
       IN  IF sec.nmap_scan = "" /\ sec.command = ""
           THEN /\ \E res \in ScanResults :
                     Finish(sec, res, SectionStep(sec, res, db[sec.port], now + 1, TRUE))
                /\ UNCHANGED inprogress
           ELSE /\ step' = [phase |-> "running"]
                /\ inprogress' = [inprogress EXCEPT !.scans = @ + 1]
                /\ report_groups' = EnsureGroup(report_groups, GroupKey(sec))
                /\ UNCHANGED <<now, idx, scanned, stored>>
    /\ UNCHANGED <<db, config, save_to_file, pc, reports>>
    /\ UNCHANGED storeVars
    /\ UNCHANGED <<mode, main, exit_status, passes, due, interrupted, store_ok, tables>>
    /\ UNCHANGED parseVars
    /\ UNCHANGED listed

\* An iteration that begins while the scan command of the one before it is
\* still running.
SectionBeginNoWait == step.phase \in {"none", "running"} /\ BeginSection

\* The loop body is entered when the iteration before it has ended.
SectionBegin == step = NoStep /\ BeginSection

\* The scan command has ended. A failed scan stores its failure and a scan
\* without addresses its empty success; otherwise update_host_database opens
\* the database file and begins its transaction, or fails to open the file.
SectionScanned ==
    /\ pc = "scan"
    /\ step.phase = "running"
    /\ LET sec == config[idx]
       IN  \E res \in ScanResults, dbOk \in StatementOutcomes(sec.port, tables) :
              LET it == SectionStep(sec, res, db[sec.port], now + 1, dbOk)
              IN  IF ~it.connect
                  THEN Finish(sec, res, it) /\ pc' = pc
                  ELSE IF ~store_ok
                  THEN pc' = "failed" /\ step' = NoStep
                       /\ UNCHANGED <<now, idx, report_groups, scanned, stored>>
                  ELSE /\ step' = [phase |-> "writing", res |-> res, it |-> it]
                       /\ UNCHANGED <<now, pc, idx, report_groups, scanned, stored>>
    /\ inprogress' = [inprogress EXCEPT
                         !.scans = @ - 1,
                         !.writes = IF step'.phase = "writing" THEN @ + 1 ELSE @]
    /\ UNCHANGED <<db, config, save_to_file, reports>>
    /\ UNCHANGED storeVars
    /\ UNCHANGED <<mode, main, exit_status, passes, due, interrupted, store_ok, tables>>
    /\ UNCHANGED parseVars
    /\ UNCHANGED listed

\* update_host_database ends: commit, or sqlite3.Error and rollback; the
\* connection is closed.
SectionCommitted ==
    /\ pc = "scan"
    /\ step.phase = "writing"
    /\ db' = [db EXCEPT ![config[idx].port] = step.it.rows]
    /\ step' = [step EXCEPT !.phase = "written"]
    /\ inprogress' = [inprogress EXCEPT !.writes = @ - 1]
    /\ UNCHANGED <<now, passVars>>
    /\ UNCHANGED storeVars
    /\ UNCHANGED <<mode, main, exit_status, passes, due, interrupted, store_ok, tables>>
    /\ UNCHANGED parseVars
    /\ UNCHANGED listed

\* The new hosts are stored as the port's entry of the group.
SectionStored ==
    /\ pc = "scan"
    /\ step.phase = "written"
    /\ Finish(config[idx], step.res, step.it)
    /\ UNCHANGED <<db, config, save_to_file, pc, reports>>
    /\ UNCHANGED storeVars
    /\ UNCHANGED <<mode, main, exit_status, passes, inprogress, due, interrupted, store_ok,
                   tables>>
    /\ UNCHANGED parseVars
    /\ UNCHANGED listed

\* The loop over the sections is over when no iteration is in progress.
StepScanDone == step = NoStep /\ ScanDone

\* The pass, one statement of scan_ports per step.
StepNext ==
    \/ StartPass
    \/ SectionBegin
    \/ SectionScanned
    \/ SectionCommitted
    \/ SectionStored
    \/ StepScanDone
    \/ ReportGroup
    \/ PassDone

\* The profiles of the pass that is followed step by step: with no scan
\* method, an nmap scan, a command or both, with or without a post_command,
\* without label and reported to no email address.
StepProfiles ==
    [port : Ports, label : {""}, email : {""}, nmap_scan : NmapArgs, command : Commands,
     post_command : PostCommands]

StepConfigs == [1..2 -> StepProfiles]

StepInit ==
    /\ db \in SeedDbs
    /\ now = 0
    /\ upc = "idle"
    /\ call = NoCall
    /\ last = NoLast
    /\ watch = NoWatch
    /\ config \in StepConfigs
    /\ save_to_file = FALSE
    /\ pc = "start"
    /\ idx = 0
    /\ report_groups = << >>
    /\ reports = << >>
    /\ scanned = << >>
    /\ stored = << >>
    /\ InCronMode

StepSpec == StepInit /\ [][StepNext]_vars

\* ------------------------------------------------------- main and the two modes
\* How many passes of standalone mode are followed.
MaxPasses == 2

\* How HarbingerMonitor.__init__ can end: load_config raises (the file is
\* missing or is not YAML), setup_database raises sqlite3.Error, or the
\* monitor is built.
StartupOutcomes == {"ok", "config not found", "config not parsed", "database error"}

\* A setup_database that makes the tables of the configured ports anew.
SetupDatabaseRecreate(tbls, rows, cfg) ==
    LET ports == {cfg[i].port : i \in 1..Len(cfg)}
    IN  [tables |-> tbls \cup ports,
         db |-> [p \in Ports |-> IF p \in ports THEN EmptyBag ELSE rows[p]]]

\* setup_database: CREATE TABLE IF NOT EXISTS hosts_port_<port> for the port
\* of every port_ section. A table that exists is left as it is.
SetupDatabase(tbls, rows, cfg) ==
    [tables |-> tbls \cup {cfg[i].port : i \in 1..Len(cfg)}, db |-> rows]

\* main() up to the choice of the mode: the monitor is built and the mode is
\* entered, or an exception of the constructor is caught and main returns 1.
\* A setup_database that fails may have made some of the tables.
Startup ==
    /\ main = "startup"
    /\ \E outcome \in StartupOutcomes :
          LET sd == SetupDatabase(tables, db, config)
          IN  CASE outcome = "ok" ->
                     /\ tables' = sd.tables
                     /\ db' = sd.db
                     /\ main' = IF mode = "cron" THEN "cron" ELSE "loop"
                     /\ pc' = IF mode = "cron" THEN "start" ELSE "idle"
                     /\ UNCHANGED exit_status
                [] outcome = "database error" ->
                     /\ tables' \in {t \in SUBSET sd.tables : tables \subseteq t /\ t # sd.tables}
                     /\ main' = "returned"
                     /\ exit_status' = 1
                     /\ UNCHANGED <<db, pc>>
                [] OTHER ->
                     /\ main' = "returned"
                     /\ exit_status' = 1
                     /\ UNCHANGED <<db, pc, tables>>
    /\ UNCHANGED <<now, config, save_to_file, idx, report_groups, reports, scanned, stored>>
    /\ UNCHANGED storeVars
    /\ UNCHANGED <<mode, passes, inprogress, due, interrupted, store_ok, step>>
    /\ UNCHANGED parseVars
    /\ UNCHANGED listed

\* A run_cron_mode that calls scan_ports again.
CronReturnAgain ==
    /\ main = "cron"
    /\ pc = "done"
    /\ passes < MaxPasses
    /\ pc' = "start"
    /\ UNCHANGED <<db, now, config, save_to_file, idx, report_groups, reports, scanned, stored>>
    /\ UNCHANGED storeVars
    /\ UNCHANGED runVars
    /\ UNCHANGED parseVars
    /\ UNCHANGED listed

\* run_cron_mode after scan_ports has returned, and main's "return 0".
CronReturn ==
    /\ main = "cron"
    /\ pc = "done"
    /\ main' = "returned"
    /\ exit_status' = 0
    /\ UNCHANGED <<db, now, passVars>>
    /\ UNCHANGED storeVars
    /\ UNCHANGED <<mode, passes, inprogress, due, interrupted, store_ok, tables, step>>
    /\ UNCHANGED parseVars
    /\ UNCHANGED listed

\* An exception leaves scan_ports: in cron mode it reaches main, in
\* standalone mode it passes through schedule.run_pending to the handler of
\* run_standalone_mode, which logs it and raises it again. main returns 1.
PassFailed ==
    /\ main \in {"cron", "loop"}
    /\ pc = "failed"
    /\ main' = "returned"
    /\ exit_status' = 1
    /\ pc' = "aborted"
    /\ step' = NoStep
    /\ inprogress' = Quiet
    /\ UNCHANGED <<db, now, config, save_to_file, idx, report_groups, reports, scanned, stored>>
    /\ UNCHANGED storeVars
    /\ UNCHANGED <<mode, passes, due, interrupted, store_ok, tables>>
    /\ UNCHANGED parseVars
    /\ UNCHANGED listed

\* The time of day of the daily job comes (again) while the program runs.
TriggerDue ==
    /\ main = "loop"
    /\ passes < MaxPasses
    /\ due < 2
    /\ due' = due + 1
    /\ UNCHANGED <<db, now, passVars>>
    /\ UNCHANGED storeVars
    /\ UNCHANGED <<mode, main, exit_status, passes, inprogress, interrupted, store_ok, tables,
                   step>>
    /\ UNCHANGED parseVars
    /\ UNCHANGED listed

\* A scheduler that starts the job in a thread of its own.
RunPendingThreaded ==
    /\ main = "loop"
    /\ due > 0
    /\ inprogress.passes < 2
    /\ pc \in {"idle", "scan", "report"}
    /\ pc' = "start"
    /\ UNCHANGED <<db, now, config, save_to_file, idx, report_groups, reports, scanned, stored>>
    /\ UNCHANGED storeVars
    /\ UNCHANGED runVars
    /\ UNCHANGED parseVars
    /\ UNCHANGED listed

\* schedule.run_pending() in the loop of run_standalone_mode: a job that is
\* due is called in the thread of the loop, which goes on when the job has
\* returned.
RunPending ==
    /\ main = "loop"
    /\ due > 0
    /\ pc = "idle"
    /\ pc' = "start"
    /\ UNCHANGED <<db, now, config, save_to_file, idx, report_groups, reports, scanned, stored>>
    /\ UNCHANGED storeVars
    /\ UNCHANGED runVars
    /\ UNCHANGED parseVars
    /\ UNCHANGED listed

\* scan_ports returns to the scheduler, which sets the next run of the job
\* from the present time, and the loop sleeps.
PassReturn ==
    /\ main = "loop"
    /\ pc = "done"
    /\ pc' = "idle"
    /\ due' = 0
    /\ UNCHANGED <<db, now, config, save_to_file, idx, report_groups, reports, scanned, stored>>
    /\ UNCHANGED storeVars
    /\ UNCHANGED <<mode, main, exit_status, passes, inprogress, interrupted, store_ok, tables,
                   step>>
    /\ UNCHANGED parseVars
    /\ UNCHANGED listed

\* A KeyboardInterrupt that is handled as the other exceptions are.
InterruptUncaught ==
    /\ main = "loop"
    /\ interrupted' = TRUE
    /\ main' = "returned"
    /\ exit_status' = 1
    /\ pc' = "interrupted"
    /\ step' = NoStep
    /\ inprogress' = Quiet
    /\ UNCHANGED <<db, now, config, save_to_file, idx, report_groups, reports, scanned, stored>>
    /\ UNCHANGED storeVars
    /\ UNCHANGED <<mode, passes, due, store_ok, tables>>
    /\ UNCHANGED parseVars
    /\ UNCHANGED listed

\* KeyboardInterrupt in standalone mode, in the sleep of the loop or at any
\* point of a pass: "except KeyboardInterrupt" logs it, run_standalone_mode
\* returns and main returns 0. What scan_ports was doing is abandoned; a
\* transaction that is open is not committed.
Interrupt ==
    /\ main = "loop"
    /\ interrupted' = TRUE
    /\ main' = "returned"
    /\ exit_status' = 0
    /\ pc' = "interrupted"
    /\ step' = NoStep
    /\ inprogress' = Quiet
    /\ UNCHANGED <<db, now, config, save_to_file, idx, report_groups, reports, scanned, stored>>
    /\ UNCHANGED storeVars
    /\ UNCHANGED <<mode, passes, due, store_ok, tables>>
    /\ UNCHANGED parseVars
    /\ UNCHANGED listed

\* The database file stops being openable while the program runs (its
\* directory is removed or its permissions change).
StoreBreaks ==
    /\ main \in {"cron", "loop"}
    /\ store_ok
    /\ store_ok' = FALSE
    /\ UNCHANGED <<db, now, passVars>>
    /\ UNCHANGED storeVars
    /\ UNCHANGED <<mode, main, exit_status, passes, inprogress, due, interrupted, tables, step>>
    /\ UNCHANGED parseVars
    /\ UNCHANGED listed

\* The profiles of the run-level specification: scanned by a command,
\* without label, reported to no email address.
RunProfiles ==
    [port : Ports, label : {""}, email : {""}, nmap_scan : {""}, command : Commands \ {""}]

RunConfigs == [1..2 -> RunProfiles]

\* main() is called on a database file that earlier runs have left, with
\* the tables they have made.
AtStartup ==
    /\ main = "startup"
    /\ exit_status = 0
    /\ passes = 0
    /\ inprogress = Quiet
    /\ due = 0
    /\ interrupted = FALSE
    /\ store_ok = TRUE
    /\ tables \in {t \in SUBSET Ports : \A p \in Ports \ t : db[p] = EmptyBag}
    /\ step = NoStep
    /\ NoHistory

\* The profiles of cron mode: scanned by a command, with or without label,
\* reported to no email address.
BatchProfiles ==
    [port : Ports, label : Labels, email : {""}, nmap_scan : {""}, command : Commands \ {""}]

BatchConfigs == [1..2 -> BatchProfiles]

BatchInit ==
    /\ db \in SeedDbs
    /\ now = 0
    /\ upc = "idle"
    /\ call = NoCall
    /\ last = NoLast
    /\ watch = NoWatch
    /\ config \in BatchConfigs
    /\ save_to_file = FALSE
    /\ pc = "idle"
    /\ idx = 0
    /\ report_groups = << >>
    /\ reports = << >>
    /\ scanned = << >>
    /\ stored = << >>
    /\ mode = "cron"
    /\ AtStartup

\* The steps of main --mode cron.
BatchProgram ==
    \/ Startup
    \/ Next
    \/ CronReturn
    \/ PassFailed

\* main --mode cron, on a database file that may stop being openable. The
\* program goes on as long as it has a step to take: none of its steps waits
\* for anything but a child process that has a timeout.
BatchNext ==
    \/ BatchProgram
    \/ StoreBreaks

BatchSpec == BatchInit /\ [][BatchNext]_vars /\ WF_vars(BatchProgram)

RunInit ==
    /\ db \in SeedDbs
    /\ now = 0
    /\ upc = "idle"
    /\ call = NoCall
    /\ last = NoLast
    /\ watch = NoWatch
    /\ config \in RunConfigs
    /\ save_to_file = FALSE
    /\ pc = "idle"
    /\ idx = 0
    /\ report_groups = << >>
    /\ reports = << >>
    /\ scanned = << >>
    /\ stored = << >>
    /\ mode \in {"cron", "standalone"}
    /\ AtStartup

\* main in either mode, with the interruptions of the operator and a
\* database file that may stop being openable.
RunNext ==
    \/ Startup
    \/ StoreBreaks
    \/ TriggerDue
    \/ RunPending
    \/ StepNext
    \/ PassReturn
    \/ CronReturn
    \/ PassFailed
    \/ Interrupt

RunSpec == RunInit /\ [][RunNext]_vars

\* ------------------------------------------------ the output of a scan command
\* Longest line of a one-line output, in pieces, and most lines of an output
\* of short lines.
MaxAtoms == 4
MaxLines == 3

\* A line of stdout is a sequence of characters. The characters that \b and
\* str.split tell apart: digits, the other word characters, and the
\* characters that are not word characters.
DigitSeq == <<"0", "1", "2", "3", "4", "5", "6", "7", "8", "9">>
Digit == Range(DigitSeq)
NonWord == {".", " ", "(", ")"}

\* s[i], or "" beyond the ends of s.
At(s, i) == IF i \in 1..Len(s) THEN s[i] ELSE ""

\* The length of the run of digits of s that starts at i.
RunLen(s, i) ==
    CHOOSE n \in 0..Len(s) :
        /\ \A j \in i..(i + n - 1) : At(s, j) \in Digit
        /\ At(s, i + n) \notin Digit

\* One alternative of the pattern of is_valid_ip, on the run of digits o:
\* 25[0-5] | 2[0-4][0-9] | [01]?[0-9][0-9]?
OctetPattern(o) ==
    \/ Len(o) \in {1, 2}
    \/ Len(o) = 3 /\ o[1] \in {"0", "1"}
    \/ Len(o) = 3 /\ o[1] = "2" /\ o[2] \in {"0", "1", "2", "3", "4"}
    \/ Len(o) = 3 /\ o[1] = "2" /\ o[2] = "5" /\ o[3] \in {"0", "1", "2", "3", "4", "5"}

\* The pattern of the re.findall of execute_command on a run of digits:
\* [0-9]{1,3}
OctetAnyDigits(o) == Len(o) \in 1..3

\* The ends of the four runs of digits of s from i on that three dots
\* separate, or << >> when s does not go on so.
Quad(s, i) ==
    LET e1 == i + RunLen(s, i) - 1
        e2 == e1 + 1 + RunLen(s, e1 + 2)
        e3 == e2 + 1 + RunLen(s, e2 + 2)
        e4 == e3 + 1 + RunLen(s, e3 + 2)
    IN  IF /\ e1 >= i /\ At(s, e1 + 1) = "."
           /\ e2 > e1 + 1 /\ At(s, e2 + 1) = "."
           /\ e3 > e2 + 1 /\ At(s, e3 + 1) = "."
           /\ e4 > e3 + 1
        THEN <<e1, e2, e3, e4>>
        ELSE << >>

\* The four runs of digits of a quad of s that starts at i.
Octets(s, i) ==
    LET q == Quad(s, i)
    IN  <<SubSeq(s, i, q[1]), SubSeq(s, q[1] + 2, q[2]), SubSeq(s, q[2] + 2, q[3]),
          SubSeq(s, q[3] + 2, q[4])>>

\* An is_valid_ip whose pattern is the one of the re.findall.
IsValidIpAnyDigits(s) ==
    /\ Quad(s, 1) # << >>
    /\ Quad(s, 1)[4] = Len(s)
    /\ \A k \in 1..4 : OctetAnyDigits(Octets(s, 1)[k])

\* is_valid_ip: re.match of ^(octet\.){3}octet$ on a string without newline.
IsValidIp(s) ==
    /\ Quad(s, 1) # << >>
    /\ Quad(s, 1)[4] = Len(s)
    /\ \A k \in 1..4 : OctetPattern(Octets(s, 1)[k])

\* Where the match of \b(?:[0-9]{1,3}\.){3}[0-9]{1,3}\b that starts at i ends,
\* or 0 when none starts there: a word boundary before the first digit, four
\* runs of one to three digits, and a word boundary after the last.
MatchEnd(s, i) ==
    LET q == Quad(s, i)
    IN  IF /\ q # << >>
           /\ At(s, i - 1) \in NonWord \cup {""}
           /\ \A k \in 1..4 : OctetAnyDigits(Octets(s, i)[k])
           /\ At(s, q[4] + 1) \in NonWord \cup {""}
        THEN q[4]
        ELSE 0

\* re.findall(pattern, line): the matches from left to right, none
\* overlapping another.
RECURSIVE IpMatches(_, _)
IpMatches(s, i) ==
    IF i > Len(s) THEN << >>
    ELSE IF MatchEnd(s, i) > 0
         THEN <<SubSeq(s, i, MatchEnd(s, i))>> \o IpMatches(s, MatchEnd(s, i) + 1)
         ELSE IpMatches(s, i + 1)

\* str.strip() on a line: the blanks at its ends are removed.
RECURSIVE Strip(_)
Strip(s) ==
    IF s = << >> THEN s
    ELSE IF s[1] = " " THEN Strip(Tail(s))
    ELSE IF s[Len(s)] = " " THEN Strip(SubSeq(s, 1, Len(s) - 1))
    ELSE s

\* part.strip('()')
RECURSIVE StripParens(_)
StripParens(s) ==
    IF s = << >> THEN s
    ELSE IF s[1] \in {"(", ")"} THEN StripParens(Tail(s))
    ELSE IF s[Len(s)] \in {"(", ")"} THEN StripParens(SubSeq(s, 1, Len(s) - 1))
    ELSE s

\* line.split(): the runs of characters between blanks.
RECURSIVE Split(_)
Split(s) ==
    IF s = << >> THEN << >>
    ELSE IF s[1] = " " THEN Split(Tail(s))
    ELSE LET n == CHOOSE n \in 1..Len(s) :
                     /\ \A j \in 1..n : s[j] # " "
                     /\ At(s, n + 1) \in {" ", ""}
         IN  <<SubSeq(s, 1, n)>> \o Split(SubSeq(s, n + 1, Len(s)))

\* The elements of a sequence that satisfy is_valid_ip, in order.
RECURSIVE ValidOnes(_)
ValidOnes(ws) ==
    IF ws = << >> THEN << >>
    ELSE IF IsValidIp(ws[1]) THEN <<ws[1]>> \o ValidOnes(Tail(ws))
    ELSE ValidOnes(Tail(ws))

\* What a line of the output adds to ip_addresses in execute_command: the
\* stripped line when it is an address, otherwise the matches of the
\* re.findall that are addresses.
CommandLineIps(line) ==
    LET l == Strip(line)
    IN  IF l # << >> /\ IsValidIp(l) THEN <<l>> ELSE ValidOnes(IpMatches(l, 1))

\* The parsing of execute_command: the addresses of the lines, then
\* list(dict.fromkeys(ip_addresses)).
RECURSIVE CommandLines(_)
CommandLines(out) ==
    IF out = << >> THEN << >> ELSE CommandLineIps(out[1]) \o CommandLines(Tail(out))

CommandIpAddresses(out) == Dedup(CommandLines(out))

\* 'Nmap scan report for'
NmapMarker ==
    <<"N", "m", "a", "p", " ", "s", "c", "a", "n", " ", "r", "e", "p", "o", "r", "t", " ",
      "f", "o", "r">>

\* 'Nmap scan report for' in line
HasMarker(line) ==
    \E i \in 1..Len(line) :
        /\ i + Len(NmapMarker) - 1 <= Len(line)
        /\ SubSeq(line, i, i + Len(NmapMarker) - 1) = NmapMarker

\* The parts of a line without their parentheses.
CleanParts(line) == [k \in 1..Len(Split(line)) |-> StripParens(Split(line)[k])]

\* A loop over the parts of the line without the break.
NmapLineIpsNoBreak(line) ==
    IF HasMarker(Strip(line)) THEN ValidOnes(CleanParts(Strip(line))) ELSE << >>

\* What a line of the output adds to ip_addresses in nmap_scan: for a line
\* with the marker, the first part that is an address once its parentheses
\* are stripped.
NmapLineIps(line) ==
    IF HasMarker(Strip(line))
    THEN LET found == ValidOnes(CleanParts(Strip(line)))
         IN  IF found = << >> THEN << >> ELSE <<found[1]>>
    ELSE << >>

\* The parsing of nmap_scan; the list is returned as it is.
RECURSIVE NmapIpAddresses(_)
NmapIpAddresses(out) ==
    IF out = << >> THEN << >> ELSE NmapLineIps(out[1]) \o NmapIpAddresses(Tail(out))

\* The pieces the lines of the outputs are made of.
Ip1 == <<"1", "0", ".", "0", ".", "0", ".", "1">>
Ip2InParens == <<"(", "1", "0", ".", "0", ".", "0", ".", "2", ")">>
Ip999 == <<"9", "9", "9", ".", "1", ".", "1", ".", "1">>
MarkerAndBlank == NmapMarker \o <<" ">>

Atoms == {Ip1, Ip2InParens, Ip999, <<"0">>, <<".">>, <<" ">>, <<"x">>, MarkerAndBlank}

\* The lines of up to n pieces.
RECURSIVE LinesOf(_)
LinesOf(n) ==
    IF n = 0 THEN {<< >>}
    ELSE LinesOf(n - 1) \cup {l \o a : l \in LinesOf(n - 1), a \in Atoms}

\* Short lines: an address, a name, or the marker followed by one of them or
\* by both.
ShortLines ==
    {Ip1, Ip2InParens, <<"x">>, MarkerAndBlank \o Ip1, MarkerAndBlank \o Ip2InParens,
     MarkerAndBlank \o <<"x", " ">> \o Ip2InParens}

\* The runs of one to three of these digits.
OctetDigits == {"0", "1", "2", "4", "5", "6", "9"}
DigitRuns ==
    {<<a>> : a \in OctetDigits} \cup {<<a, b>> : a, b \in OctetDigits}
        \cup {<<a, b, c>> : a, b, c \in OctetDigits}

\* Lines of four runs of digits between dots, the first or the last being
\* any of the runs.
OctetLines ==
    {o \o <<".", "0", ".", "0", ".", "1">> : o \in DigitRuns}
        \cup {<<"1", ".", "0", ".", "0", ".">> \o o : o \in DigitRuns}

\* The outputs: one line of up to MaxAtoms pieces, one line of four runs of
\* digits, or up to MaxLines short lines.
Outputs ==
    {<<l>> : l \in LinesOf(MaxAtoms) \cup OctetLines} \cup SeqsUpTo(ShortLines, MaxLines)

\* A scan command has exited with status 0 and its stdout, stripped and
\* split at the newlines, is to be parsed.
ParseInit ==
    /\ db = EmptyDb
    /\ now = 0
    /\ upc = "idle"
    /\ call = NoCall
    /\ last = NoLast
    /\ watch = NoWatch
    /\ config = << >>
    /\ save_to_file = FALSE
    /\ pc = "scan"
    /\ idx = 0
    /\ report_groups = << >>
    /\ reports = << >>
    /\ scanned = << >>
    /\ stored = << >>
    /\ mode = "cron"
    /\ main = "cron"
    /\ exit_status = 0
    /\ passes = 1
    /\ inprogress = [Quiet EXCEPT !.passes = 1, !.scans = 1]
    /\ due = 0
    /\ interrupted = FALSE
    /\ store_ok = TRUE
    /\ tables = Ports
    /\ step = [phase |-> "running"]
    /\ output \in Outputs
    /\ ip_addresses = NotParsed
    /\ listed = {}

\* execute_command parses the output.
ParseCommandOutput ==
    /\ ip_addresses = NotParsed
    /\ ip_addresses' = [by |-> "command", ips |-> CommandIpAddresses(output)]
    /\ UNCHANGED <<db, now, output, listed>>
    /\ UNCHANGED <<storeVars, passVars, runVars>>

\* nmap_scan parses the output.
ParseNmapOutput ==
    /\ ip_addresses = NotParsed
    /\ ip_addresses' = [by |-> "nmap", ips |-> NmapIpAddresses(output)]
    /\ UNCHANGED <<db, now, output, listed>>
    /\ UNCHANGED <<storeVars, passVars, runVars>>

ParseNext ==
    \/ ParseCommandOutput
    \/ ParseNmapOutput

ParseSpec == ParseInit /\ [][ParseNext]_vars

\* ------------------------------------------------------ presence-store claims
HasDuplicate(s) == \E i, j \in 1..Len(s) : i # j /\ s[i] = s[j]

\* C1: a call of update_host_database on a port with a set of addresses that
\* an earlier call on that port with the same set has committed returns the
\* empty list, whatever calls on whatever ports came in between.
C1_Idempotent ==
    (upc = "return" /\ last.again /\ last.status \in {"committed", "error"})
        => last.result = << >>

\* The watched call is repeated and commits, after another call has added an
\* address to the same table.
C1_Witness ==
    /\ upc = "return"
    /\ last.again
    /\ last.status = "committed"
    /\ IpsOf(db[call.port]) # Range(call.ips)

\* C2: a call that is applied (commits) returns exactly the input addresses
\* that had no row in the port's table when the call began, each once, also
\* when the input repeats an address; afterwards every input address has a row.
C2_Newness ==
    (upc = "return" /\ last.status = "committed") =>
        /\ Range(last.result) = Range(call.ips) \ IpsOf(call.pre)
        /\ ~HasDuplicate(last.result)
        /\ Range(call.ips) \subseteq IpsOf(db[call.port])

\* A committed call whose input repeats a new address, on a table that
\* already holds another address.
C2_Witness ==
    /\ upc = "return"
    /\ last.status = "committed"
    /\ HasDuplicate(call.ips)
    /\ last.result # << >>
    /\ IpsOf(call.pre) # {}

\* C3: every port's table holds at most one row per address, in every
\* reachable state.
C3_Dedup ==
    \A p \in Ports :
        \A r1, r2 \in BagToSet(db[p]) :
            /\ CopiesIn(r1, db[p]) = 1
            /\ r1.ip_address = r2.ip_address => r1 = r2

\* A call whose input repeats an address has committed and the table holds
\* two rows.
C3_Witness ==
    /\ upc = "return"
    /\ last.status = "committed"
    /\ HasDuplicate(call.ips)
    /\ BagCardinality(db[call.port]) = 2

\* C10: while a call is in its loop the durable table is the table from
\* before the call; when the call ends by a database error or the process
\* dies, it still is; when the call commits, it is that table with the whole
\* batch applied.
C10_Atomic ==
    /\ upc = "loop" => db[call.port] = call.pre
    /\ (upc = "return" /\ last.status \in {"error", "crashed", "empty"})
          => db[call.port] = call.pre
    /\ (upc = "return" /\ last.status = "committed")
          => db[call.port] = UpsertAll(call.pre, call.ips, call.time).rows

\* A call has ended by an error or a crash after its connection had inserted
\* or updated rows.
C10_Witness ==
    /\ upc = "return"
    /\ last.status \in {"error", "crashed"}
    /\ last.partial

\* The step on which a call of update_host_database commits.
Commits == upc = "loop" /\ upc' = "return" /\ last'.status = "committed"

\* C11: no step of the presence store, be it a statement, a commit, a
\* database error or the death of the process, removes a row: on every port
\* the set of recorded addresses only grows, and an address that the later
\* calls do not name keeps its row.
C11_AppendOnly ==
    [][\A p \in Ports : IpsOf(db[p]) \subseteq IpsOf(db'[p])]_vars

\* A call has committed on a table that holds an address the call did not
\* name, read at a later time than the row was written.
C11_Witness ==
    /\ upc = "return"
    /\ last.status = "committed"
    /\ \E r \in BagToSet(db[call.port]) :
          r.ip_address \notin Range(call.ips) /\ r.last_seen < call.time

\* C12: no step changes the first_seen of a row that exists, and the step on
\* which a call commits leaves every address of its input with last_seen at
\* the time of the call, the addresses that were not new included; a row the
\* call created has first_seen at the time of the call.
C12_Timestamps ==
    [][/\ \A p \in Ports : \A r \in BagToSet(db[p]) :
              \E r2 \in BagToSet(db'[p]) :
                  r2.ip_address = r.ip_address /\ r2.first_seen = r.first_seen
       /\ Commits =>
              \A ip \in Range(call.ips) :
                  \E r \in BagToSet(db'[call.port]) :
                      /\ r.ip_address = ip
                      /\ r.last_seen = call.time
                      /\ ip \notin IpsOf(db[call.port]) => r.first_seen = call.time]_vars

\* A call has committed with an address in its input that was not new, and
\* the row of that address has a first_seen earlier than its last_seen.
C12_Witness ==
    /\ upc = "return"
    /\ last.status = "committed"
    /\ \E r \in BagToSet(db[call.port]) :
          /\ r.ip_address \in Range(call.ips) \ Range(last.result)
          /\ r.first_seen < r.last_seen
          /\ r.last_seen = call.time

\* C13: a step changes the table of no port but the port of the call in
\* flight, and the call that commits on port P returns the input addresses
\* without a row in P's table, whatever the tables of the other ports hold.
C13_PortIndependence ==
    [][/\ \A q \in Ports : db'[q] # db[q] => (upc = "loop" /\ call.port = q)
       /\ Commits => Range(last'.result) = Range(call.ips) \ IpsOf(db[call.port])]_vars

\* A committed call has returned as new an address that another port's
\* table already holds.
C13_Witness ==
    /\ upc = "return"
    /\ last.status = "committed"
    /\ \E q \in Ports \ {call.port} :
          Range(last.result) \cap IpsOf(db[q]) # {}

\* --------------------------------------------------------- coordinator claims
\* The report of section i's group shows this entry for a port.
Shows(i, entry) ==
    \E n \in 1..Len(reports) :
        /\ <<reports[n].label, reports[n].email>> = GroupKey(config[i])
        /\ \E k \in 1..Len(reports[n].body) : reports[n].body[k] = Rendering(entry)

\* The step that processes a section, seen from the state before it.
ScansSection == pc = "scan" /\ idx <= Len(config) /\ Len(stored') = Len(stored) + 1

\* C4: when a pass is over, every section has been processed and the entry
\* it stored is shown in the report of its group, whatever the scans of the
\* sections before it did.
C4_EveryOutcomeReported ==
    pc = "done" =>
        /\ Len(stored) = Len(config)
        /\ \A i \in 1..Len(config) : Shows(i, stored[i])

\* C5: a step that stores an entry with an error stores no hosts with it and
\* leaves every table, every last_seen included, as it was.
C5_FailedTouchesNothing ==
    [][(ScansSection /\ stored'[idx].error # NoError)
          => (stored'[idx].hosts = << >> /\ db' = db)]_vars

\* A section of port 80 has failed while the table of port 80 holds a row.
C5_Witness ==
    \E i \in 1..Len(stored) :
        /\ scanned[i].kind = "exit"
        /\ stored[i].error # NoError
        /\ config[i].port = 80
        /\ db[80] # EmptyBag

\* C6: when a pass is over, a section whose scan command ended with a
\* non-zero exit status has stored the failure with the exit status and the
\* text of stderr and no hosts, and the report of its group shows the port
\* as failed with that text.
C6_NonZeroExitFails ==
    pc = "done" =>
        \A i \in 1..Len(config) :
            scanned[i].kind = "exit" =>
                LET failure == Entry(config[i].port, << >>,
                                     CommandFailed(scanned[i].code, scanned[i].stderr))
                IN  stored[i] = failure /\ Shows(i, failure)

\* C7: when a pass is over, a section whose scan command timed out has
\* stored a success with no hosts, and the report of its group shows the
\* port with "No new hosts detected."; the step changed no table.
C7_TimeoutEmptySuccess ==
    pc = "done" =>
        \A i \in 1..Len(config) :
            scanned[i].kind = "timeout" =>
                LET empty == Entry(config[i].port, << >>, NoError)
                IN  stored[i] = empty /\ Shows(i, empty)

\* C8: when a pass is over, a section scanned by nmap_scan whose command
\* timed out has stored a success with no hosts, and one whose command ended
\* with a non-zero exit status has stored a failure, shown as failed in the
\* report of its group.
C8_NmapSameContract ==
    pc = "done" =>
        \A i \in 1..Len(config) :
            config[i].nmap_scan # "" =>
                /\ scanned[i].kind = "timeout" => stored[i] = Entry(config[i].port, << >>, NoError)
                /\ scanned[i].kind = "exit" =>
                      /\ stored[i].error # NoError
                      /\ stored[i].hosts = << >>
                      /\ Shows(i, stored[i])

\* C9: when a pass is over, a section with neither nmap_scan nor command has
\* stored the failure "No scan method defined", and the report of its group
\* shows the port as failed with that text.
C9_NoScanMethodFails ==
    pc = "done" =>
        \A i \in 1..Len(config) :
            (config[i].nmap_scan = "" /\ config[i].command = "") =>
                LET failure == Entry(config[i].port, << >>, NoScanMethod)
                IN  stored[i] = failure /\ Shows(i, failure)

\* The pair a profile is grouped by: its label, or "Port_<port>" when it has
\* none, and its email.
Pair(sec) == <<IF sec.label = "" THEN PortName[sec.port] ELSE sec.label, sec.email>>

\* The pairs of the profiles processed so far.
PairsUpTo(n) == {Pair(config[i]) : i \in 1..n}

\* C14: while the sections are processed the groups are, each once, the
\* pairs of the sections processed so far, and the port of each section is
\* in the group of its pair (so two sections are in one group exactly when
\* they have the same pair); when the pass is over there is exactly one
\* report for each distinct pair of the configuration and no other report.
C14_Grouping ==
    /\ pc = "scan" =>
          /\ {report_groups[g].key : g \in 1..Len(report_groups)} = PairsUpTo(Len(stored))
          /\ Len(report_groups) = Cardinality(PairsUpTo(Len(stored)))
          /\ \A i \in 1..Len(stored) : \A g \in 1..Len(report_groups) :
                (\E k \in 1..Len(report_groups[g].ports) :
                    report_groups[g].ports[k].port = config[i].port)
                \/ report_groups[g].key # Pair(config[i])
    /\ pc = "done" =>
          /\ {<<reports[n].label, reports[n].email>> : n \in 1..Len(reports)}
                = PairsUpTo(Len(config))
          /\ Len(reports) = Cardinality(PairsUpTo(Len(config)))

\* A pass is over for two profiles with the same label and different emails,
\* and for two profiles without a label on different ports: two reports.
C14_Witness ==
    /\ pc = "done"
    /\ Len(reports) = 2
    /\ \/ config[1].label = "web" /\ config[2].label = "web"
       \/ config[1].label = "" /\ config[2].label = "" /\ config[1].email = config[2].email

\* The renderings of the outcomes of the profiles 1..n with this pair, in
\* declaration order.
RECURSIVE OutcomesOf(_, _)
OutcomesOf(pair, n) ==
    IF n = 0 THEN << >>
    ELSE IF Pair(config[n]) = pair
         THEN Append(OutcomesOf(pair, n - 1), Rendering(stored[n]))
         ELSE OutcomesOf(pair, n - 1)

\* C15: when a pass is over, the body of the report of a group lists the
\* outcome of every profile with the group's pair, one per profile, in the
\* order the profiles are declared, also when two of them declare the same
\* port.
C15_OneOutcomePerProfile ==
    pc = "done" =>
        \A n \in 1..Len(reports) :
            reports[n].body = OutcomesOf(<<reports[n].label, reports[n].email>>, Len(config))

\* C16: the subject of every report is the one the numbers of new hosts N
\* and of failures M of the report select: failures only, both counts, the
\* count of hosts in the singular for N = 1 and in the plural above, or no
\* new hosts.
C16_Subject ==
    \A n \in 1..Len(reports) :
        LET N == reports[n].total_new_hosts
            M == reports[n].total_errors
            text == Tail(reports[n].subject)
        IN  /\ Head(reports[n].subject) = reports[n].label
            /\ (N = 0 /\ M > 0) => text = <<"Scan failures detected">>
            /\ (N > 0 /\ M > 0) => text = <<N, "new hosts detected,", M, "scan failures">>
            /\ (N = 1 /\ M = 0) => text = <<N, "new host detected">>
            /\ (N > 1 /\ M = 0) => text = <<N, "new hosts detected">>
            /\ (N = 0 /\ M = 0) => text = <<"No new hosts detected">>

\* A report with one new host and one failure.
C16_Witness ==
    \E n \in 1..Len(reports) :
        reports[n].total_new_hosts = 1 /\ reports[n].total_errors = 1

\* The number of new hosts of the successful ones of these entries.
RECURSIVE NewHostsOf(_)
NewHostsOf(ports) ==
    IF ports = << >> THEN 0
    ELSE (IF Head(ports).error = NoError THEN Len(Head(ports).hosts) ELSE 0)
         + NewHostsOf(Tail(ports))

\* C17: the report of a group counts as new hosts the sum of the lengths of
\* the new-host lists of the group's ports that succeeded, and as errors the
\* number of the group's ports that failed; no port is in both counts.
C17_GroupCounts ==
    \A n \in 1..Len(reports) :
        LET ports == report_groups[n].ports
        IN  /\ reports[n].total_new_hosts = NewHostsOf(ports)
            /\ reports[n].total_errors =
                  Cardinality({k \in 1..Len(ports) : ports[k].error # NoError})
            /\ \A k \in 1..Len(ports) :
                  ports[k].error = NoError \/ ports[k].hosts = << >>

\* A report of a group with a failed port, a port with two new hosts and so
\* a count of two hosts and one error.
C17_Witness ==
    \E n \in 1..Len(reports) :
        /\ reports[n].total_new_hosts = 2
        /\ reports[n].total_errors = 1
        /\ Len(report_groups[n].ports) = 2

\* The step that calls generate_report for a group, seen from the state
\* before it.
ReportsGroup == pc = "report" /\ idx <= Len(report_groups)

\* C18: for every report composed, send_email was called exactly when the
\* group has an email address, and the report file was written (or the
\* attempt to write it made) exactly when reports.save_to_file is on,
\* whatever the group's email; no group, the ones without any sink included,
\* ends the pass with an exception, and a pass that is over has composed a
\* report for every group.
C18_DispatchRule ==
    /\ \A n \in 1..Len(reports) :
          /\ reports[n].emailed # "none" <=> reports[n].email # ""
          /\ reports[n].saved # "disabled" <=> save_to_file
    /\ pc # "failed"
    /\ pc = "done" => Len(reports) = Len(report_groups)

\* With file reports on, a pass is over with a report that was emailed and
\* written to a file and a report of a group without email that was written
\* to a file and not emailed.
C18_Witness ==
    /\ pc = "done"
    /\ save_to_file
    /\ \E n, m \in 1..Len(reports) :
          /\ reports[n].email # "" /\ reports[n].emailed = "sent" /\ reports[n].saved = "written"
          /\ reports[m].email = "" /\ reports[m].emailed = "none" /\ reports[m].saved = "written"

\* C19: every step that calls generate_report for a group adds the group's
\* report and goes on to the next group, whether the email or the file of the
\* group failed or not; with file reports on the file of the group is
\* written or its failure logged also when the email of the group has
\* failed; the pass ends with a report for every group.
C19_SinkFailureIsolated ==
    [][/\ ReportsGroup =>
              /\ pc' = "report"
              /\ idx' = idx + 1
              /\ Len(reports') = Len(reports) + 1
              /\ save_to_file => reports'[idx].saved \in {"written", "failed"}
       /\ pc' = "done" => Len(reports') = Len(report_groups')]_vars

\* The email of the first group has failed and its file was written; the
\* file of the second group has failed and its email was sent; the pass is
\* over.
C19_Witness ==
    /\ pc = "done"
    /\ Len(reports) = 2
    /\ reports[1].emailed = "failed" /\ reports[1].saved = "written"
    /\ reports[2].emailed = "sent" /\ reports[2].saved = "failed"

\* C20: no run of a post_command ends the pass with an exception; what
\* follows the host in the report is, for a run that ended with a non-zero
\* exit status, the marker "[Command failed: ...]" with the text of stderr,
\* for a timeout "[Command timed out]" and for any other error "[Command
\* error: ...]"; every host of every port of the group is in the report
\* with its output, and a pass that is over has a report for every group.
C20_EnrichmentContained ==
    /\ pc # "failed"
    /\ \A n \in 1..Len(reports) : \A k \in 1..Len(reports[n].post) :
          /\ Len(reports[n].body) = Len(report_groups[n].ports)
          /\ Len(reports[n].post[k]) = Len(report_groups[n].ports[k].hosts)
          /\ \A h \in 1..Len(reports[n].post[k]) :
                LET run == reports[n].post[k][h]
                IN  /\ run.host = report_groups[n].ports[k].hosts[h]
                    /\ run.result.kind = "exit" =>
                          run.output = <<"[Command failed:", run.result.text, "]">>
                    /\ run.result.kind = "timeout" => run.output = <<"[Command timed out]">>
                    /\ run.result.kind = "oserror" =>
                          run.output = <<"[Command error:", run.result.text, "]">>
    /\ pc = "done" => Len(reports) = Len(report_groups)

\* The post_command of the first host of the first group has ended with a
\* non-zero exit status, the one of its second host has printed a banner,
\* and the pass is over with the report of a second group in which a
\* post_command has timed out.
C20_Witness ==
    /\ pc = "done"
    /\ Len(reports) = 2
    /\ Len(reports[1].post[1]) = 2
    /\ reports[1].post[1][1].result.kind = "exit"
    /\ reports[1].post[1][2].output = <<"banner">>
    /\ \E h \in 1..Len(reports[2].post[1]) : reports[2].post[1][h].result.kind = "timeout"

\* The runs of a post_command on a host for a port in the reports of the
\* pass, and the new hosts of the profiles that have this post_command on
\* this port.
Invocations(cmd, host, port) ==
    {r \in (1..Len(reports)) \X (1..Len(config)) \X (1..MaxIps) :
        /\ r[2] <= Len(reports[r[1]].post)
        /\ r[3] <= Len(reports[r[1]].post[r[2]])
        /\ LET run == reports[r[1]].post[r[2]][r[3]]
           IN  run.ran /\ run.command = cmd /\ run.host = host /\ run.port = port}

NewHostsWith(cmd, host, port) ==
    {i \in 1..Len(stored) :
        /\ Get(config[i], "post_command") = cmd
        /\ config[i].port = port
        /\ stored[i].error = NoError
        /\ host \in Range(stored[i].hosts)}

\* C21: when a pass is over, each post_command has been run on each host
\* for each port as many times as there are profiles with that post_command
\* on that port that have the host among their new hosts: once for a new
\* host of a profile with a post_command, and never for a host that is not
\* new, for a port that failed or for a profile without post_command.
C21_EnrichOncePerNewHost ==
    pc = "done" =>
        \A cmd \in PostCommands \ {""}, host \in IPs, port \in Ports :
            Cardinality(Invocations(cmd, host, port))
                = Cardinality(NewHostsWith(cmd, host, port))

\* C30: a call of update_host_database with an empty list returns in one
\* step from the state it was called in: its result is empty, no connection
\* is opened, the clock is not read and every table, every last_seen
\* included, is as before.
C30_EmptyUpsertIsNoop ==
    [][(upc # "return" /\ upc' = "return" /\ call'.ips = << >>) =>
          /\ upc = "idle"
          /\ last'.status = "empty"
          /\ last'.result = << >>
          /\ call'.k = 0
          /\ now' = now
          /\ db' = db]_vars

\* A call with an empty list has returned on a port whose table holds rows.
C30_Witness ==
    /\ upc = "return"
    /\ last.status = "empty"
    /\ call.ips = << >>
    /\ db[call.port] # EmptyBag


\* ------------------------------------------------------------ run-level claims
\* C22: in either mode at most one pass of scan_ports is in flight at any
\* time: a trigger of the daily job that comes while a pass is running starts
\* no pass beside it, so the steps of two passes are never interleaved.
C22_NoOverlappingPasses ==
    /\ inprogress.passes <= 1
    /\ inprogress.passes = 1 <=> pc \in {"scan", "report", "failed"}

\* A pass of standalone mode is generating its reports and the time of the
\* job has come again since the pass was started.
C22_Witness == mode = "standalone" /\ pc = "report" /\ due = 2 /\ inprogress.passes = 1

C24_CleanInterruption ==
    [][/\ ~interrupted
       /\ interrupted' =>
             /\ main' = "returned"
             /\ exit_status' = 0
             /\ inprogress' = Quiet
             /\ db' = db
             /\ scanned' = scanned
             /\ stored' = stored
             /\ report_groups' = report_groups
             /\ reports' = reports]_vars

\* The run was interrupted in its second pass, after the first profile had
\* been processed with a new host and before any report of that pass.
C24_Witness ==
    /\ interrupted
    /\ exit_status = 0
    /\ passes = 2
    /\ Len(stored) = 1
    /\ stored[1].hosts # << >>
    /\ reports = << >>

\* C25: the run ends with a failure status only when the start-up failed,
\* and then no pass was started; a run in cron mode that starts up makes its
\* pass; and no pass is ever aborted by a failure of a scan, of the database,
\* of a post_command or of a sink.
C25_FatalOnlyAtStartup ==
    /\ exit_status = 1 => main = "returned" /\ passes = 0 /\ pc = "idle"
    /\ (main = "returned" /\ mode = "cron" /\ passes = 0) => exit_status = 1
    /\ pc \notin {"failed", "aborted"}

\* The part of C25 about the start-up alone.
C25_StartupFailureIsFatal ==
    [][(main = "startup" /\ main' = "returned") =>
          exit_status' = 1 /\ passes' = 0 /\ pc' = "idle" /\ db' = db]_vars

\* C29: when the start-up is over and a mode is entered, a table exists
\* for the port of every profile, and it goes on existing, so that no
\* statement of update_host_database fails for want of its table; and the
\* start-up, failed or not, drops no table and leaves every row of every
\* table as it was.
C29_TablesForAllPorts ==
    [][/\ main = "startup" => db' = db /\ tables \subseteq tables'
       /\ main' \in {"cron", "loop"} =>
             \A i \in 1..Len(config) :
                 /\ config[i].port \in tables'
                 /\ TRUE \in StatementOutcomes(config[i].port, tables')]_vars

\* The start-up has ended on a database file that held a host on port 80,
\* and both profiles are on port 443, whose table holds nothing.
C29_Witness ==
    /\ main = "cron"
    /\ pc = "start"
    /\ passes = 0
    /\ db[80] # EmptyBag
    /\ \A i \in 1..Len(config) : config[i].port = 443
    /\ 443 \in tables


\* ------------------------------------------------------------- per-port claims
\* The profiles that can have produced a run of a post_command in the
\* report of a group: the profiles of the group on the port of the run that
\* have this post_command and have the host among their new hosts.
EnrichedProfiles(pair, run, outcomes) ==
    {i \in 1..Len(config) :
        /\ i <= Len(outcomes)
        /\ Pair(config[i]) = pair
        /\ config[i].port = run.port
        /\ Get(config[i], "post_command") = run.command
        /\ run.command # ""
        /\ outcomes[i].error = NoError
        /\ run.host \in Range(outcomes[i].hosts)}

\* C26: in a pass a scan command is started only for the profile after the
\* last one that has its outcome, and an outcome that is stored stays as it
\* is (no retry, FAILED and DONE are terminal); a profile without scan method
\* and a profile whose scan command ends with a non-zero exit status are
\* FAILED, and a profile whose scan command succeeds is not; a table is
\* written only in an update that follows a scan that succeeded; and every
\* run of a post_command in a report comes after the scans and is for a new
\* host of a profile of the group that has this post_command.
C26_PerPortStateMachine ==
    [][/\ inprogress'.scans > inprogress.scans => idx = Len(stored) + 1 /\ idx <= Len(config)
       /\ (pc = "scan" /\ pc' = "scan") =>
             /\ Len(stored') \in {Len(stored), Len(stored) + 1}
             /\ SubSeq(stored', 1, Len(stored)) = stored
       /\ Len(stored') = Len(stored) + 1 =>
             LET i == Len(stored')
             IN  /\ scanned'[i].kind = "none" => stored'[i].error = NoScanMethod
                 /\ scanned'[i].kind = "exit" => stored'[i].error # NoError
                 /\ scanned'[i].kind = "ok" => stored'[i].error = NoError
                 /\ stored'[i].error # NoError => stored'[i].hosts = << >>
       /\ db' # db => step.phase = "writing" /\ step.res.kind = "ok"
       /\ Len(reports') > Len(reports) =>
             LET rep == reports'[Len(reports')]
             IN  /\ pc = "report"
                 /\ Len(stored) = Len(config)
                 /\ \A k \in 1..Len(rep.post) : \A h \in 1..Len(rep.post[k]) :
                        rep.post[k][h].ran =>
                            EnrichedProfiles(<<rep.label, rep.email>>, rep.post[k][h], stored)
                                # {}]_vars

\* C28: within a pass the outcomes are stored one at a time for the
\* profiles in the order of the configuration; a scan command is started only
\* for the profile after the last one that has its outcome and only when no
\* scan command and no update of a table is in progress; so at no time is
\* more than one scan command or update in progress.
C28_SequentialProfiles ==
    [][/\ inprogress'.scans + inprogress'.writes <= 1
       /\ inprogress'.scans > inprogress.scans =>
             /\ inprogress.scans = 0
             /\ inprogress.writes = 0
             /\ idx = Len(stored) + 1
       /\ inprogress'.writes > inprogress.writes => inprogress.scans = 1 /\ idx = Len(stored) + 1
       /\ Len(stored') > Len(stored) =>
             /\ Len(stored') = Len(stored) + 1
             /\ stored'[Len(stored')].port = config[Len(stored')].port
             /\ inprogress'.scans = 0
             /\ inprogress'.writes = 0]_vars

\* The table of the second profile is being updated after the first profile
\* has been scanned, its table updated and its outcome stored.
C28_Witness ==
    /\ pc = "scan"
    /\ idx = 2
    /\ Len(stored) = 1
    /\ stored[1].hosts # << >>
    /\ step.phase = "writing"
    /\ inprogress.writes = 1

\* C27: the body of a report has, for each port the group holds and in
\* their order, the header of the port and one rendering: the failure marker
\* exactly when the port's outcome has an error, the new hosts exactly when
\* it has none and has new hosts, and "No new hosts detected." exactly when
\* it has none and has no new host. A host that is listed is followed by the
\* output of a post_command exactly when a post_command is configured for
\* the port and its output is not empty.
C27_BodyPerPort ==
    \A n \in 1..Len(reports) :
        LET ports == report_groups[n].ports
            rep == reports[n]
        IN  /\ Len(rep.body) = Len(ports)
            /\ Len(rep.headers) = Len(ports)
            /\ \A k \in 1..Len(ports) :
                  /\ rep.headers[k][1] = "Port"
                  /\ rep.headers[k][2] = ports[k].port
                  /\ rep.body[k].shown \in {"SCAN FAILED", "hosts", "No new hosts detected."}
                  /\ rep.body[k].shown = "SCAN FAILED" <=> ports[k].error # NoError
                  /\ rep.body[k].shown = "hosts" <=>
                        ports[k].error = NoError /\ ports[k].hosts # << >>
                  /\ rep.body[k].shown = "No new hosts detected." <=>
                        ports[k].error = NoError /\ ports[k].hosts = << >>
                  /\ rep.body[k].shown = "SCAN FAILED" => rep.body[k].error = ports[k].error
                  /\ rep.body[k].shown = "hosts" =>
                        /\ rep.body[k].hosts = ports[k].hosts
                        /\ Len(rep.post[k]) = Len(ports[k].hosts)
                        /\ \A h \in 1..Len(rep.post[k]) :
                              /\ rep.post[k][h].host = ports[k].hosts[h]
                              /\ rep.post[k][h].output # << >> <=>
                                    /\ GetPortPostCommand(config, ports[k].port) # ""
                                    /\ rep.post[k][h].result
                                          # [kind |-> "ok", text |-> ""]
                  /\ rep.body[k].shown # "hosts" => rep.post[k] = << >>

\* A report whose body has a failed port and a port with a new host that is
\* followed by the output of its post_command.
C27_Witness ==
    /\ pc = "done"
    /\ Len(reports) = 1
    /\ Len(reports[1].body) = 2
    /\ reports[1].body[1].shown = "SCAN FAILED"
    /\ reports[1].body[2].shown = "hosts"
    /\ reports[1].post[2][1].output = <<"banner">>


\* ------------------------------------------------------- claims across a pass
\* C34: when a pass is over, every address whose row was created during the
\* pass (its first_seen is a clock reading of the pass) is listed as a new
\* host under its port in a report of the pass.
C34_NoDiscoveryLost ==
    pc = "done" =>
        \A p \in Ports : \A r \in BagToSet(db[p]) :
            r.first_seen > 0 => <<p, r.ip_address>> \in ListedIn(reports)

\* C35: a host that a report of an earlier pass has listed as new for a port
\* is listed as new for that port in no report of a later pass; and the new
\* hosts that an update of a table returns had no row in the table before,
\* so a host that a pass has recorded is new in no later pass.
C35_ReportedOnce ==
    [][/\ ListedIn(reports') \cap listed' = {}
       /\ (step.phase = "writing" /\ step'.phase = "written") =>
             /\ Range(step.it.entry.hosts) \cap IpsOf(db[config[idx].port]) = {}
             /\ Range(step.it.entry.hosts) \subseteq IpsOf(db'[config[idx].port])]_vars

\* The second pass has listed a new host, and the first pass had listed one.
C35_Witness ==
    /\ passes = 2
    /\ listed # {}
    /\ ListedIn(reports) # {}


\* ------------------------------------------------ claims on the parsing of output
\* The number a run of digits denotes.
RECURSIVE Value(_)
Value(o) ==
    IF o = << >> THEN 0
    ELSE 10 * Value(SubSeq(o, 1, Len(o) - 1))
            + (CHOOSE d \in 0..9 : DigitSeq[d + 1] = o[Len(o)])

\* The positions of the dots of s.
Dots(s) == {i \in 1..Len(s) : s[i] = "."}

\* s is an address: digits and three dots, the dots separating four octets
\* of one to three digits each, each denoting a number of 0..255.
WellFormed(s) ==
    /\ \A i \in 1..Len(s) : s[i] \in Digit \cup {"."}
    /\ Cardinality(Dots(s)) = 3
    /\ \A i \in 0..Len(s) :
           (i = 0 \/ i \in Dots(s)) =>
               LET j == CHOOSE j \in (i + 1)..(Len(s) + 1) :
                            /\ j = Len(s) + 1 \/ j \in Dots(s)
                            /\ \A k \in (i + 1)..(j - 1) : k \notin Dots(s)
               IN  /\ j - i - 1 \in 1..3
                   /\ Value(SubSeq(s, i + 1, j - 1)) <= 255

\* The dotted-quads embedded in a line: the pieces of the line between
\* characters that are neither digits nor dots nor other word characters
\* (blanks, parentheses, the ends of the line).
Embedded(line) ==
    {SubSeq(line, x[1], x[2]) :
        x \in {y \in (1..Len(line)) \X (1..Len(line)) :
                  /\ y[1] <= y[2]
                  /\ At(line, y[1] - 1) \in {" ", "(", ")", ""}
                  /\ At(line, y[2] + 1) \in {" ", "(", ")", ""}
                  /\ \A k \in y[1]..y[2] : line[k] \in Digit \cup {"."}}}

\* C31: every address either parser returns is four dot-separated octets of
\* digits, each in 0..255; a one-line output whose line is exactly an address
\* yields that address; a line yields each address embedded in it; and the
\* line 999.1.1.1 yields nothing.
C31_ExtractionValidity ==
    /\ \A k \in 1..Len(ip_addresses.ips) : WellFormed(ip_addresses.ips[k])
    /\ (ip_addresses.by = "command" /\ Len(output) = 1) =>
          /\ WellFormed(Strip(output[1])) => ip_addresses.ips = <<Strip(output[1])>>
          /\ \A e \in Embedded(output[1]) :
                 WellFormed(e) => e \in Range(ip_addresses.ips)
          /\ Strip(output[1]) = Ip999 => ip_addresses.ips = << >>

C31_Witness ==
    /\ ip_addresses.by = "command"
    /\ Len(output) = 1
    /\ ~WellFormed(output[1])
    /\ Len(ip_addresses.ips) = 2
    /\ \E e \in Embedded(output[1]) : ~WellFormed(e) /\ Cardinality(Dots(e)) = 3


\* What line k of the output adds to the list of the parser that has run.
Extracted(k) ==
    IF ip_addresses.by = "nmap" THEN Range(NmapLineIps(output[k]))
    ELSE Range(CommandLineIps(output[k]))

\* The first line of the output that address a is extracted from.
FirstLine(a) == CHOOSE k \in 1..Len(output) : a \in Extracted(k) /\ \A h \in 1..(k - 1) : a \notin Extracted(h)

\* C32: the list either parser returns holds each address extracted from
\* the output exactly once, in the order of the first occurrences.
C32_EachAddressOnce ==
    ip_addresses.by # "none" =>
        /\ \A k \in 1..Len(output) : Extracted(k) \subseteq Range(ip_addresses.ips)
        /\ \A i, j \in 1..Len(ip_addresses.ips) :
               /\ ip_addresses.ips[i] = ip_addresses.ips[j] => i = j
               /\ i < j => FirstLine(ip_addresses.ips[i]) <= FirstLine(ip_addresses.ips[j])

\* The part of C32 on execute_command.
C32_CommandListIsUnique == ip_addresses.by = "command" => C32_EachAddressOnce


\* The tokens of a line, parentheses stripped, that are addresses.
AddressTokens(line) ==
    LET toks == Split(line)
        at == {k \in 1..Len(toks) : WellFormed(StripParens(toks[k]))}
    IN  [k \in 1..Cardinality(at) |->
            StripParens(toks[CHOOSE i \in at : Cardinality({h \in at : h < i}) = k - 1])]

\* The lines of the output that hold the marker.
MarkerLines == {k \in 1..Len(output) : HasMarker(output[k])}

\* C33: in the parsing of the discovery tool only lines with the marker
\* contribute, each at most one address: the first token of the line that is
\* an address once its parentheses are stripped.
C33_FirstTokenOfMarkerLines ==
    ip_addresses.by = "nmap" =>
        /\ Len(ip_addresses.ips) <= Cardinality(MarkerLines)
        /\ MarkerLines = {} => ip_addresses.ips = << >>
        /\ (Len(output) = 1 /\ MarkerLines = {1}) =>
              IF AddressTokens(output[1]) = << >>
              THEN ip_addresses.ips = << >>
              ELSE ip_addresses.ips = <<AddressTokens(output[1])[1]>>
        /\ \A a \in Range(ip_addresses.ips) :
               \E k \in MarkerLines :
                   AddressTokens(output[k]) # << >> /\ a = AddressTokens(output[k])[1]

C33_Witness ==
    /\ ip_addresses.by = "nmap"
    /\ Len(output) = 1
    /\ MarkerLines = {1}
    /\ Len(AddressTokens(output[1])) = 2
    /\ AddressTokens(output[1])[1] # AddressTokens(output[1])[2]
    /\ Len(ip_addresses.ips) = 1


\* ------------------------------------------------ claims on the report of a port
\* The profile that produced the k-th outcome of report rep: the last
\* profile of the report's group that declares the port of the outcome.
Producer(rep, k) ==
    CHOOSE i \in 1..Len(config) :
        /\ Pair(config[i]) = <<rep.label, rep.email>>
        /\ config[i].port = rep.body[k].port
        /\ \A j \in (i + 1)..Len(config) :
               ~(Pair(config[j]) = <<rep.label, rep.email>> /\ config[j].port = config[i].port)

\* C36: in every report the header of a port outcome shows the port_label,
\* and the command run on its new hosts is the post_command, of the profile
\* that produced the outcome.
C36_OfProducingProfile ==
    \A r \in 1..Len(reports) : \A k \in 1..Len(reports[r].body) :
        LET sec == config[Producer(reports[r], k)]
        IN  /\ reports[r].headers[k] = PortHeader(sec.port, Get(sec, "port_label"))
            /\ \A h \in 1..Len(reports[r].post[k]) :
                   /\ reports[r].post[k][h].command = Get(sec, "post_command")
                   /\ reports[r].post[k][h].ran <=> Get(sec, "post_command") # ""

\* C36 for configurations whose profiles declare different ports or have
\* the same port_label and post_command.
C36_WhenPortsAgree ==
    (\A i, j \in 1..Len(config) :
        config[i].port = config[j].port =>
            /\ Get(config[i], "port_label") = Get(config[j], "port_label")
            /\ Get(config[i], "post_command") = Get(config[j], "post_command"))
        => C36_OfProducingProfile


\* C37: the files written for the reports of a pass have different names.
C37_DistinctFileNames ==
    \A r1, r2 \in 1..Len(reports) :
        (r1 # r2 /\ reports[r1].filename # NoFile /\ reports[r2].filename # NoFile)
            => reports[r1].filename # reports[r2].filename

\* C37 for reports whose files are written in different seconds.
C37_InDifferentSeconds ==
    \A r1, r2 \in 1..Len(reports) :
        (/\ r1 # r2
         /\ reports[r1].filename # NoFile
         /\ reports[r2].filename # NoFile
         /\ reports[r1].timestamp # reports[r2].timestamp)
            => reports[r1].filename # reports[r2].filename


\* ------------------------------------------------ claims on a failed update
\* update_host_database is called in the step and sqlite3.connect raises:
\* the database file cannot be opened.
OpenFails == pc = "scan" /\ step.phase = "running" /\ pc' = "failed"

\* The update in progress ends with sqlite3.Error in a statement or in the
\* commit.
StatementFails ==
    /\ pc = "scan"
    /\ step.phase = "writing"
    /\ step'.phase = "written"
    /\ step.it = SectionStep(config[idx], step.res, db[config[idx].port], now + 1, FALSE)

\* The addresses of a batch that have no record in rows.
Unrecorded(ips, rows) == {ip \in Range(ips) : ip \notin IpsOf(rows)}

\* What a failed update leaves, for the batch ips of port p: the tables as
\* they were, and each address of the batch that has no record returned as
\* new by an update of the port that succeeds and contains it.
NothingRecorded(p, ips) ==
    /\ db' = db
    /\ \A ip \in Unrecorded(ips, db[p]) : \A t \in now..(now + 2) :
           ip \in Range(UpdateHostDatabase(db'[p], <<ip>>, t, TRUE).new_hosts)

\* C38: when the update of a port fails with a database error, no record of
\* the batch is persisted, the outcome stored for the port is a success
\* without new hosts and without error, and each host of the batch that has
\* no record is returned as new by the next update of the port that
\* succeeds and contains it.
C38_FailedUpdateIsSilent ==
    [][/\ OpenFails =>
             /\ NothingRecorded(config[idx].port, << >>)
             /\ stored' = Append(stored, Entry(config[idx].port, << >>, NoError))
       /\ StatementFails =>
             /\ NothingRecorded(config[idx].port, ExecuteCommand(step.res).ips)
             /\ step'.it.entry = Entry(config[idx].port, << >>, NoError)
       /\ (step.phase = "written" /\ step' = NoStep /\ pc' = "scan") =>
             stored' = Append(stored, step.it.entry)]_vars

\* The part of C38 on an error raised by a statement or by the commit.
C38_HandledError ==
    [][/\ StatementFails =>
             /\ NothingRecorded(config[idx].port, ExecuteCommand(step.res).ips)
             /\ step'.it.entry = Entry(config[idx].port, << >>, NoError)
       /\ (step.phase = "written" /\ step' = NoStep /\ pc' = "scan") =>
             stored' = Append(stored, step.it.entry)]_vars


\* ------------------------------------------------ claims on the times of a record
\* The row of address ip in rows.
RowOf(rows, ip) == CHOOSE r \in BagToSet(rows) : r.ip_address = ip

\* In every table, first_seen is not later than last_seen.
FirstSeenNotLater(tbls) ==
    \A p \in Ports : \A r \in BagToSet(tbls[p]) : r.first_seen <= r.last_seen

\* C39 as stated: first_seen is not later than last_seen in any record, and
\* the two are equal exactly while the host has been observed in a single
\* Upsert: equal when the Upsert that creates the record has committed, and
\* different when an Upsert has committed that found the record.
C39_EqualWhileSingleUpsert ==
    [][/\ FirstSeenNotLater(db) /\ FirstSeenNotLater(db')
       /\ Commits =>
             \A ip \in Range(call.ips) :
                 LET r == RowOf(db'[call.port], ip)
                 IN  r.first_seen = r.last_seen <=> ip \notin IpsOf(db[call.port])]_vars

\* C39, amended: first_seen is not later than last_seen in any record; the
\* Upsert that creates a record leaves the two equal to its reading of the
\* clock, and an Upsert that finds the record keeps first_seen and sets
\* last_seen to its reading, so that the two are equal exactly while no
\* Upsert has observed the host at a later reading than the one that
\* created the record.
C39_EqualUntilLaterReading ==
    [][/\ FirstSeenNotLater(db) /\ FirstSeenNotLater(db')
       /\ Commits =>
             \A ip \in Range(call.ips) :
                 LET r == RowOf(db'[call.port], ip)
                 IN  /\ r.last_seen = call.time
                     /\ ip \notin IpsOf(db[call.port]) => r.first_seen = call.time
                     /\ ip \in IpsOf(db[call.port]) =>
                            /\ r.first_seen = RowOf(db[call.port], ip).first_seen
                            /\ r.first_seen = r.last_seen
                                   <=> call.time = RowOf(db[call.port], ip).first_seen]_vars

\* An Upsert that found a record at the clock reading that created it has
\* committed, and another record has been observed at a later reading.
C39_Witness ==
    /\ upc = "return"
    /\ last.status = "committed"
    /\ \E ip \in Range(call.ips) :
           /\ ip \in IpsOf(call.pre)
           /\ RowOf(db[call.port], ip).first_seen = RowOf(db[call.port], ip).last_seen
    /\ \E p \in Ports : \E r \in BagToSet(db[p]) : r.first_seen < r.last_seen


====
